---- MODULE Spec2Model ----
(***************************************************************************)
(* Verification model of the vibe-quant reduce-only closing executor.      *)
(*                                                                         *)
(* Part I  (SpecExec): the per-(symbol, position_side) execution state     *)
(*   machine of src/execution/engine.py as it is driven by the side loop,  *)
(*   the timeout loop and the order-update handler tasks of src/main.py,   *)
(*   together with the exchange's view of the key's limit orders.          *)
(* Part II (SpecStop): the protective-stop reconciler of                   *)
(*   src/risk/protective_stop.py and the external-takeover latch of        *)
(*   src/main.py for one position side.                                    *)
(*                                                                         *)
(* One key is modelled: the engine keeps an independent SideExecutionState *)
(* per key and the stop manager an independent record per side.            *)
(* Time is an integer clock; one unit stands for one polling period.       *)
(***************************************************************************)
EXTENDS Integers, Sequences, FiniteSets, TLC

\* ------------------------------------------------------------------ bounds
MaxTime == 4
MaxOrders == 2
MaxWs == 1
MaxStops == 2
MaxStopTime == 2

\* --------------------------------------------------- configuration values
\* ExecutionEngine.__init__ parameters (time values in clock units).
order_ttl_ms == 2
repost_cooldown_ms == 1
ws_fill_grace_ms == 1
maker_timeouts_to_escalate == 2
aggr_fills_to_deescalate == 1
aggr_timeouts_to_deescalate == 2
\* risk.panic_close: ttl_ms_override = max(1, int(order_ttl_ms * ttl_percent))
\* and the selected tier's maker_timeouts_to_escalate.
panic_ttl_ms == 1
panic_maker_timeouts_to_escalate == 1
\* RateLimitConfig.max_orders_per_sec and max_cancels_per_sec
max_orders_per_sec == 1
max_cancels_per_sec == 2

\* protective_stop: dist_to_liq = DistNum / DistDen, tick_size = 1
DistNum == 1
DistDen == 3
\* protective_stop.external_takeover.rest_verify_interval_s, in clock units
verify_ms == 1
\* protective_stop.enabled
protective_stop_enabled == TRUE
\* protective_stop.external_takeover.enabled
external_takeover_enabled == TRUE

\* Optional[str] order id None
NoId == 0

OrderIds == 1..MaxOrders
StopIds == 1..MaxStops
\* liquidation prices the exchange reports for an open position
LiqPrices == {2, 3}

VARIABLES
    \* ---- Part I
    now,          \* current_time_ms()
    st,           \* SideExecutionState of the key
    sidePc,       \* position of the key's _side_loop task
    intent,       \* OrderIntent of the placement in flight
    placeRes,     \* OrderResult of the placement in flight
    toPc,         \* position of the _timeout_check_loop task
    toMs,         \* current_ms captured by _check_all_timeouts
    toOid,        \* order id handed to cancel_order
    exStatus,     \* exchange: status of each limit order of the key
    ws,           \* user-data stream: order updates not yet handled
    nextId,       \* exchange: next order id
    on_fill_calls,\* spy on log_order_fill + _on_fill for final fills, per order
    placed_filled,\* spy: orders whose placement result was already FILLED
    overlapped,   \* spy: the awaits of another task during which an engine operation began
    signal_call,  \* spy: the call of on_signal / on_panic_close made in the last step
    placed_risk,  \* spy: orders booked from an intent with is_risk = true
    limiter_rejected, \* spy: the kinds of risk request the local limiters have rejected
    \* ---- Part II
    running,      \* Application._running
    psSide,       \* the position side modelled
    position,     \* Application._positions[symbol][side]
    ownStops,     \* exchange: stop price of each open own protective stop (0: not open)
    extStop,      \* exchange: an external closePosition/reduceOnly stop is open on the side
    nextStop,     \* exchange: next stop order id
    algoWs,       \* user-data stream: ALGO_UPDATE of an external stop not yet handled
    latch,        \* ExternalTakeoverState of the side
    sync,         \* the symbol's protective_stop_sync task
    syncLog,      \* spy: what the current or last sync run saw, requested and left
    last_own_price, \* spy: stop price of the last own stop placed for the open position
    \* ---- Part III
    calibrating,  \* Application._calibrating
    cal,          \* the _calibration_task: its position and the reconnect count at its last request
    reconnects,   \* number of _on_ws_reconnect callbacks so far
    cache,        \* reconnect count at which the data of _rules and _positions were requested
    cal_failed,   \* spy: a REST call of a calibration has raised
    \* ---- Part IV
    book,         \* exchange: status and client order id of the orders of the symbol
    sd,           \* shutdown(): the wait it is at
    grp,          \* the awaitables of the current _gather_with_timeout
    cleanup,      \* the _cancel_own_orders coroutine
    sd_cancels,   \* spy: the orders for which the cleanup has sent a cancel
    \* ---- Part V
    kcfg,         \* the thresholds of the key's engine and of the panic tier
    ks,           \* SideExecutionState of the key
    know,         \* current_time_ms()
    kpc,          \* positions of the key's side loop and of the timeout loop
    kex,          \* exchange: status of each limit order of the key
    knext,        \* exchange: next order id
    klog,         \* spy: the engine handler run in the last step and what it saw
    kfail,        \* spy: time of the last unsuccessful placement result (-1: none since the last intent)
    \* ---- Part VI
    inputs,       \* arguments of sync_symbol: position, latch
    own_orders,   \* exchange: stop price of each open stop carrying our client order id
    external_stop_orders,  \* exchange: stop price of each open stop of another origin
    next_algo_id, \* exchange: next id of an own stop
    call,         \* the sync_symbol call in progress
    callLog,      \* spy: the REST requests of the current (or last) sync_symbol call
    prevCall,     \* spy: how the preceding call ended, while nothing has changed since
    \* ---- Part VII
    order_of,     \* per key: its resting order (none, within its TTL, past its TTL)
    side_task,    \* per key: position of its _side_loop task
    timeout_task, \* position of the _timeout_check_loop task
    \* ---- Part VIII
    bg,           \* status of each task the orchestrator creates
    done_callbacks,  \* tasks whose done callback the event loop has scheduled
    error_logged, \* tasks whose exception the orchestrator has logged
    shutdown_event,  \* Application._shutdown_event
    \* ---- Part IX
    quote,         \* the last call of on_signal, on_panic_close or build_maker_price
    \* ---- Part X
    limiter,      \* the clock and the timestamp queues of RiskManager's two limiters
    acquired      \* the calls the limiters accepted, and the calls that did not ask

execVars == <<now, st, sidePc, intent, placeRes, toPc, toMs, toOid, exStatus, ws, nextId,
              on_fill_calls, placed_filled, overlapped, signal_call,
              placed_risk, limiter_rejected>>

stopVars == <<running, psSide, position, ownStops, extStop, nextStop, algoWs, latch,
              sync, syncLog, last_own_price>>

calVars == <<calibrating, cal, reconnects, cache, cal_failed>>

shutdownVars == <<book, sd, grp, cleanup, sd_cancels>>

keyVars == <<kcfg, ks, know, kpc, kex, knext, klog, kfail>>

resyncVars == <<inputs, own_orders, external_stop_orders, next_algo_id, call, callLog, prevCall>>

loopVars == <<order_of, side_task, timeout_task>>

taskVars == <<bg, done_callbacks, error_logged, shutdown_event>>

quoteVars == <<quote>>

limiterVars == <<limiter, acquired>>

\* the variables of the parts after Part V
laterVars == <<resyncVars, loopVars, taskVars, quoteVars, limiterVars>>

vars == <<execVars, stopVars, calVars, shutdownVars, keyVars, laterVars>>

\* ------------------------------------------------------------ Part I: engine

\* SideExecutionState defaults
InitState ==
    [ state |-> "IDLE", mode |-> "MAKER_ONLY",
      current_order_id |-> NoId, current_order_placed_ms |-> 0,
      current_order_mode |-> "None", current_order_is_risk |-> FALSE,
      current_order_filled_qty |-> 0,
      last_completed_order_id |-> NoId, last_completed_ms |-> 0,
      pending_fill_log |-> FALSE,
      risk_active |-> FALSE, ttl_ms_override |-> {},
      maker_timeouts_to_escalate_override |-> {},
      maker_timeout_count |-> 0, aggr_timeout_count |-> 0, aggr_fill_count |-> 0 ]

\* `state.current_order_mode or state.mode`
OrderMode(s) == IF s.current_order_mode = "None" THEN s.mode ELSE s.current_order_mode

\* a _set_mode that changes the mode and keeps the counters
SetModeKeepsCounters(s, new_mode) == [s EXCEPT !.mode = new_mode]

\* ExecutionEngine._set_mode
SetMode(s, new_mode) ==
    IF s.mode = new_mode THEN s
    ELSE [s EXCEPT !.mode = new_mode,
                   !.maker_timeout_count = 0,
                   !.aggr_timeout_count = 0,
                   !.aggr_fill_count = 0]

\* The block that ends every order: state, and the current-order fields reset.
ResetOrder(s, new_state, placed_ms) ==
    [s EXCEPT !.state = new_state,
              !.current_order_id = NoId,
              !.current_order_placed_ms = placed_ms,
              !.current_order_mode = "None",
              !.current_order_is_risk = FALSE,
              !.current_order_filled_qty = 0]

\* the rotation thresholds an ExecutionEngine is built with
EngineThresholds ==
    [maker_timeouts_to_escalate |-> maker_timeouts_to_escalate,
     aggr_fills_to_deescalate |-> aggr_fills_to_deescalate,
     aggr_timeouts_to_deescalate |-> aggr_timeouts_to_deescalate]

\* a _handle_filled that compares the fill count without requiring a positive
\* threshold
HandleFilledUnguarded(s, cfg) ==
    LET executed_mode == OrderMode(s)
        s1 == IF executed_mode = "MAKER_ONLY"
              THEN [s EXCEPT !.maker_timeout_count = 0]
              ELSE LET s2 == [s EXCEPT !.aggr_timeout_count = 0,
                                       !.aggr_fill_count = @ + 1]
                   IN IF s2.aggr_fill_count >= cfg.aggr_fills_to_deescalate
                      THEN SetMode(s2, "MAKER_ONLY")
                      ELSE s2
    IN ResetOrder(s1, "IDLE", 0)

\* ExecutionEngine._handle_filled of an engine built with the thresholds cfg
\* (state part)
HandleFilledWith(s, cfg) ==
    LET executed_mode == OrderMode(s)
        s1 == IF executed_mode = "MAKER_ONLY"
              THEN [s EXCEPT !.maker_timeout_count = 0]
              ELSE LET s2 == [s EXCEPT !.aggr_timeout_count = 0,
                                       !.aggr_fill_count = @ + 1]
                   IN IF cfg.aggr_fills_to_deescalate > 0
                         /\ s2.aggr_fill_count >= cfg.aggr_fills_to_deescalate
                      THEN SetMode(s2, "MAKER_ONLY")
                      ELSE s2
    IN ResetOrder(s1, "IDLE", 0)

\* ExecutionEngine._handle_filled (state part; the emission is FilledEmits)
HandleFilled(s) == HandleFilledWith(s, EngineThresholds)

\* ExecutionEngine._handle_canceled / _handle_expired
HandleCanceled(s, current_ms) == ResetOrder(s, "COOLDOWN", current_ms)

\* ExecutionEngine._handle_rejected
HandleRejected(s) == ResetOrder(s, "IDLE", 0)

\* ExecutionEngine._flush_pending_fill_if_expired: the order whose fill it emits
\* (NoId: none).  main.py builds the engine without fetch_order_trade_meta, so
\* the flush does not suspend and reports role "unknown".
FlushEmits(s, current_ms) ==
    IF s.pending_fill_log
       /\ ~(current_ms - s.last_completed_ms <= ws_fill_grace_ms)
    THEN s.last_completed_order_id
    ELSE NoId

\* ExecutionEngine._flush_pending_fill_if_expired: its effect on the state
Flush(s, current_ms) ==
    IF ~s.pending_fill_log THEN s
    ELSE IF current_ms - s.last_completed_ms <= ws_fill_grace_ms THEN s
    ELSE [s EXCEPT !.pending_fill_log = FALSE,
                   !.last_completed_ms = current_ms]

\* ExecutionEngine._should_accept_late_fill
ShouldAcceptLateFill(s, update, current_ms) ==
    /\ s.pending_fill_log
    /\ s.last_completed_order_id # NoId
    /\ update.order_id = s.last_completed_order_id
    /\ ~(current_ms - s.last_completed_ms > ws_fill_grace_ms)
    /\ update.status = "FILLED"
    /\ update.filled_qty > 0

\* ExecutionEngine.on_order_update after the flush: the new state, for an engine
\* built with the thresholds cfg
OnOrderUpdateStateWith(s, update, current_ms, cfg) ==
    IF s.current_order_id # update.order_id
    THEN IF ShouldAcceptLateFill(s, update, current_ms)
         THEN [s EXCEPT !.pending_fill_log = FALSE,
                        !.last_completed_order_id = NoId,
                        !.last_completed_ms = 0]
         ELSE s
    ELSE CASE update.status = "FILLED" -> HandleFilledWith(s, cfg)
           [] update.status = "CANCELED" -> HandleCanceled(s, current_ms)
           [] update.status = "REJECTED" -> HandleRejected(s)
           [] update.status = "EXPIRED" -> HandleCanceled(s, current_ms)
           [] update.status = "PARTIALLY_FILLED" ->
                LET s1 == [s EXCEPT !.current_order_filled_qty = update.filled_qty]
                    order_mode == OrderMode(s1)
                IN IF update.filled_qty > 0
                   THEN IF order_mode = "MAKER_ONLY"
                        THEN [s1 EXCEPT !.maker_timeout_count = 0]
                        ELSE SetMode([s1 EXCEPT !.aggr_timeout_count = 0], "MAKER_ONLY")
                   ELSE s1
           [] OTHER -> s

\* ExecutionEngine.on_order_update after the flush: the new state
OnOrderUpdateState(s, update, current_ms) ==
    OnOrderUpdateStateWith(s, update, current_ms, EngineThresholds)

\* ExecutionEngine.on_order_update after the flush: the order whose final fill it
\* emits (log_order_fill + _on_fill), NoId for none.
OnOrderUpdateEmits(s, update, current_ms) ==
    IF s.current_order_id # update.order_id
    THEN IF ShouldAcceptLateFill(s, update, current_ms) THEN update.order_id ELSE NoId
    ELSE IF update.status = "FILLED" THEN update.order_id ELSE NoId

\* ExecutionEngine.on_order_placed
OnOrderPlaced(s, result, current_ms) ==
    IF result.success /\ result.order_id # NoId
    THEN LET s1 == [s EXCEPT !.state = "WAITING",
                             !.current_order_id = result.order_id,
                             !.current_order_placed_ms = current_ms,
                             !.current_order_filled_qty = result.filled_qty]
         IN IF result.status = "FILLED"
            THEN HandleFilled([s1 EXCEPT !.last_completed_order_id = result.order_id,
                                         !.last_completed_ms = current_ms,
                                         !.pending_fill_log = TRUE])
            ELSE s1
    ELSE ResetOrder(s, "COOLDOWN", current_ms)

\* ExecutionEngine.check_cooldown
CheckCooldown(s, current_ms) ==
    IF s.state # "COOLDOWN" THEN s
    ELSE IF current_ms - s.current_order_placed_ms < repost_cooldown_ms THEN s
    ELSE [s EXCEPT !.state = "IDLE", !.current_order_placed_ms = 0]

\* an on_signal that does not look at the key's state
ReturnsIntentAnyState(s, has_qty) == has_qty

\* ExecutionEngine.on_signal / on_panic_close: whether an intent is returned.
\* has_qty stands for "position not done and computed qty > 0".
ReturnsIntent(s, has_qty) == s.state = "IDLE" /\ has_qty

\* ExecutionEngine.on_signal / on_panic_close: the state when an intent is returned
OnSignal(s, is_risk, current_ms) ==
    [s EXCEPT !.state = "PLACING",
              !.current_order_placed_ms = current_ms,
              !.current_order_mode = s.mode,
              !.current_order_is_risk = is_risk,
              !.current_order_filled_qty = 0]

\* check_timeout, lines 892-901: flush, then drop an expired late-fill cache
CheckTimeoutFlush(s, current_ms) ==
    LET s1 == Flush(s, current_ms)
    IN IF ~s1.pending_fill_log /\ s1.last_completed_order_id # NoId
          /\ current_ms - s1.last_completed_ms > ws_fill_grace_ms
       THEN [s1 EXCEPT !.last_completed_order_id = NoId, !.last_completed_ms = 0]
       ELSE s1

\* a check_timeout that always applies the configured TTL
TtlMsConfigured(s) == order_ttl_ms

\* check_timeout, line 908: the TTL applied
TtlMs(s) ==
    IF s.ttl_ms_override # {} THEN CHOOSE x \in s.ttl_ms_override : TRUE
    ELSE order_ttl_ms

\* a check_timeout whose comparison with the TTL is exclusive
TimedOutStrict(s, current_ms) ==
    /\ s.state = "WAITING"
    /\ current_ms - s.current_order_placed_ms > TtlMs(s)

\* check_timeout, lines 904-911: a WAITING order whose TTL has elapsed
TimedOut(s, current_ms) ==
    /\ s.state = "WAITING"
    /\ ~(current_ms - s.current_order_placed_ms < TtlMs(s))

\* a check_timeout that counts every timeout, whether or not the order traded
TimeoutCountedIgnoresFill(s) ==
    LET s1 == [s EXCEPT !.state = "CANCELING"]
    IN IF OrderMode(s) = "AGGRESSIVE_LIMIT"
       THEN [s1 EXCEPT !.aggr_timeout_count = @ + 1]
       ELSE [s1 EXCEPT !.maker_timeout_count = @ + 1]

\* check_timeout, lines 913-928: CANCELING and the timeout counters
TimeoutCounted(s) ==
    LET had_fill == s.current_order_filled_qty > 0
        s1 == [s EXCEPT !.state = "CANCELING"]
    IN IF OrderMode(s) = "AGGRESSIVE_LIMIT"
       THEN [s1 EXCEPT !.aggr_timeout_count = IF had_fill THEN 0 ELSE @ + 1]
       ELSE [s1 EXCEPT !.maker_timeout_count = IF had_fill THEN 0 ELSE @ + 1]

\* check_timeout, line 942 reads state.fill_rate_maker_timeouts_override, a field
\* SideExecutionState (src/models.py) does not declare: for a maker order without
\* the risk override the read raises AttributeError and check_timeout ends there.
RaisesAttributeError(s) ==
    /\ OrderMode(s) = "MAKER_ONLY"
    /\ s.maker_timeouts_to_escalate_override = {}

\* check_timeout, lines 939-953: mode rotation after a timeout, for an engine
\* built with the thresholds cfg
TimeoutRotatedWith(s, cfg) ==
    LET had_fill == s.current_order_filled_qty > 0
    IN IF OrderMode(s) = "MAKER_ONLY"
       THEN LET maker_escalate == CHOOSE x \in s.maker_timeouts_to_escalate_override : TRUE
            IN IF maker_escalate > 0 /\ s.maker_timeout_count >= maker_escalate
               THEN SetMode(s, "AGGRESSIVE_LIMIT")
               ELSE s
       ELSE IF cfg.aggr_timeouts_to_deescalate > 0
               /\ s.aggr_timeout_count >= cfg.aggr_timeouts_to_deescalate
            THEN SetMode(s, "MAKER_ONLY")
            ELSE IF had_fill /\ s.mode # "MAKER_ONLY"
                 THEN SetMode(s, "MAKER_ONLY")
                 ELSE s

\* check_timeout, lines 939-953: mode rotation after a timeout
TimeoutRotated(s) == TimeoutRotatedWith(s, EngineThresholds)

\* check_timeout, lines 964-965 and 969-970: after the cancel request, whatever
\* its outcome
AfterCancel(s, current_ms) ==
    [s EXCEPT !.state = "COOLDOWN", !.current_order_placed_ms = current_ms]

\* _evaluate_symbol_side, lines 1500-1506 and 1532-1536: the risk overrides,
\* tier_maker being the selected tier's maker_timeouts_to_escalate
RiskOverridesWith(s, panic, tier_maker) ==
    IF panic
    THEN [s EXCEPT !.risk_active = TRUE,
                   !.ttl_ms_override = IF s.risk_active THEN @ ELSE {panic_ttl_ms},
                   !.maker_timeouts_to_escalate_override = {tier_maker}]
    ELSE IF s.risk_active /\ s.state = "IDLE"
         THEN [s EXCEPT !.risk_active = FALSE,
                        !.ttl_ms_override = {},
                        !.maker_timeouts_to_escalate_override = {}]
         ELSE s

\* _evaluate_symbol_side, lines 1500-1506 and 1532-1536: the risk overrides
RiskOverrides(s, panic) == RiskOverridesWith(s, panic, panic_maker_timeouts_to_escalate)

\* OrderResult of a placement that did not reach the book
FailedResult == [success |-> FALSE, order_id |-> NoId, status |-> "REJECTED", filled_qty |-> 0]

NoIntent == [is_risk |-> FALSE, time_in_force |-> "None"]

\* the awaits of other tasks that are pending on the key
PendingAwaits(self) ==
    (IF sidePc # "idle" /\ self # "side" THEN {"place"} ELSE {})
    \cup (IF toPc = "await_cancel" /\ self # "timeout" THEN {"cancel"} ELSE {})

\* spy: one more final-fill emission (log_order_fill + _on_fill) for order id
Emit(calls, id) ==
    IF id = NoId THEN calls
    ELSE [calls EXCEPT ![id] = IF @ < 2 THEN @ + 1 ELSE @]

\* no call of on_signal / on_panic_close yet
NoSignalCall ==
    [called |-> FALSE, gated |-> FALSE, before |-> "IDLE", returned |-> FALSE, after |-> "IDLE"]

\* a side loop that does not look at the calibration flag
NeverGated == FALSE

\* _evaluate_symbol_side, lines 1429-1430: the iteration ends at the calibration gate
Gated == calibrating

InitExec ==
    /\ now = 1
    /\ st = InitState
    /\ sidePc = "idle"
    /\ intent = NoIntent
    /\ placeRes = FailedResult
    /\ toPc = "idle"
    /\ toMs = 0
    /\ toOid = NoId
    /\ exStatus = [i \in OrderIds |-> "none"]
    /\ ws = <<>>
    /\ nextId = 1
    /\ on_fill_calls = [i \in OrderIds |-> 0]
    /\ placed_filled = {}
    /\ overlapped = {}
    /\ signal_call = NoSignalCall
    /\ placed_risk = {}
    /\ limiter_rejected = {}

\* the clock advances
Tick ==
    /\ UNCHANGED <<running, psSide, position, ownStops, extStop, nextStop, algoWs, latch,
                   sync, syncLog, last_own_price>>
    /\ UNCHANGED <<calVars, shutdownVars, keyVars, laterVars>>
    /\ now < MaxTime
    /\ now' = now + 1
    /\ signal_call' = NoSignalCall
    /\ UNCHANGED <<st, sidePc, intent, placeRes, toPc, toMs, toOid, exStatus, ws, nextId,
                   on_fill_calls, placed_filled, overlapped,
                   placed_risk, limiter_rejected>>

\* One iteration of _side_loop: _evaluate_symbol_side up to its first suspension.
\* panic: a panic tier is selected; signal: the signal engine returns a signal;
\* risk_flag: check_risk is triggered; has_qty: the position yields a quantity;
\* limited: the placement limiter rejects (non-risk intents only).
EvaluateSymbolSide(panic, signal, risk_flag, has_qty, limited) ==
    /\ UNCHANGED <<stopVars, calVars, shutdownVars, keyVars, laterVars>>
    /\ sidePc = "idle"
    /\ panic => ~signal
    /\ has_qty => (panic \/ signal)
    /\ Gated => ~(panic \/ signal \/ risk_flag \/ limited)
    /\ IF Gated
       THEN /\ signal_call' = [NoSignalCall EXCEPT !.gated = TRUE]
            /\ UNCHANGED <<st, sidePc, intent, overlapped, limiter_rejected>>
       ELSE LET s0 == RiskOverrides(st, panic)
                s1 == CheckCooldown(s0, now)
                s2 == IF ~panic /\ signal /\ risk_flag THEN SetMode(s1, "AGGRESSIVE_LIMIT") ELSE s1
                wants == (panic \/ signal) /\ ReturnsIntent(s2, has_qty)
                s3 == OnSignal(s2, panic, now)
            IN /\ limited => (wants /\ ~panic)
               /\ risk_flag => (signal /\ ~panic)
               /\ has_qty => wants
               /\ IF ~wants
                  THEN /\ st' = s2
                       /\ UNCHANGED <<sidePc, intent>>
                       /\ overlapped' = overlapped \cup PendingAwaits("side")
                  ELSE IF limited
                  THEN /\ st' = OnOrderPlaced(s3, FailedResult, now)
                       /\ UNCHANGED <<sidePc, intent>>
                       /\ overlapped' = overlapped \cup PendingAwaits("side")
                  ELSE /\ st' = s3
                       /\ sidePc' = "place_sent"
                       /\ intent' = [is_risk |-> panic,
                                     time_in_force |-> IF s2.mode = "MAKER_ONLY" THEN "GTX" ELSE "GTC"]
                       /\ overlapped' = overlapped \cup PendingAwaits("side")
               /\ signal_call' = IF panic \/ signal
                                  THEN [called |-> TRUE, gated |-> FALSE,
                                        before |-> s2.state, returned |-> wants,
                                        after |-> IF wants THEN s3.state ELSE s2.state]
                                  ELSE NoSignalCall
               /\ limiter_rejected' = IF wants /\ limited /\ panic
                                       THEN limiter_rejected \cup {"risk_place"}
                                       ELSE limiter_rejected
    /\ UNCHANGED <<now, placeRes, toPc, toMs, toOid, exStatus, ws, nextId, on_fill_calls,
                   placed_filled, placed_risk>>

\* The exchange answers the placement request: it rejects it, or books the order
\* under a fresh id.  A post-only (GTX) order never trades on arrival.
ExAccept(outcome) ==
    /\ UNCHANGED <<stopVars, calVars, shutdownVars, keyVars, laterVars>>
    /\ sidePc = "place_sent"
    /\ sidePc' = "place_done"
    /\ IF outcome = "REJECTED"
       THEN /\ placeRes' = FailedResult
            /\ UNCHANGED <<exStatus, ws, nextId, placed_risk>>
       ELSE /\ nextId \in OrderIds
            /\ outcome \in {"FILLED", "PARTIALLY_FILLED"} =>
                    (intent.time_in_force = "GTC" /\ Len(ws) < MaxWs)
            /\ placeRes' = [success |-> TRUE, order_id |-> nextId, status |-> outcome,
                            filled_qty |-> IF outcome = "NEW" THEN 0 ELSE 1]
            /\ exStatus' = [exStatus EXCEPT ![nextId] =
                                IF outcome = "FILLED" THEN "filled"
                                ELSE IF outcome = "NEW" THEN "open" ELSE "partial"]
            /\ ws' = IF outcome = "NEW" THEN ws
                     ELSE Append(ws, [order_id |-> nextId, status |-> outcome, filled_qty |-> 1])
            /\ nextId' = nextId + 1
            /\ placed_risk' = IF intent.is_risk THEN placed_risk \cup {nextId} ELSE placed_risk
    /\ signal_call' = NoSignalCall
    /\ UNCHANGED <<now, st, intent, toPc, toMs, toOid, on_fill_calls, placed_filled, overlapped, limiter_rejected>>

\* The placement REST call returns to _evaluate_side: on_order_placed
PlaceReturn ==
    /\ UNCHANGED <<stopVars, calVars, shutdownVars, keyVars, laterVars>>
    /\ sidePc = "place_done"
    /\ st' = OnOrderPlaced(st, placeRes, now)
    /\ sidePc' = "idle"
    /\ intent' = NoIntent
    /\ placeRes' = FailedResult
    /\ placed_filled' = IF placeRes.success /\ placeRes.status = "FILLED"
                        THEN placed_filled \cup {placeRes.order_id}
                        ELSE placed_filled
    /\ overlapped' = overlapped \cup PendingAwaits("side")
    /\ signal_call' = NoSignalCall
    /\ UNCHANGED <<now, toPc, toMs, toOid, exStatus, ws, nextId, on_fill_calls,
                   placed_risk, limiter_rejected>>

\* One iteration of _timeout_check_loop: check_timeout up to its suspension.
\* limited: the cancellation limiter rejects (cancels of non-risk orders only).
CheckTimeout(limited) ==
    /\ UNCHANGED <<stopVars, calVars, shutdownVars, keyVars, laterVars>>
    /\ toPc = "idle"
    /\ LET s1 == CheckTimeoutFlush(st, now)
           s2 == TimeoutCounted(s1)
       IN /\ on_fill_calls' = Emit(on_fill_calls, FlushEmits(st, now))
          /\ overlapped' = overlapped \cup PendingAwaits("timeout")
          /\ limited => (TimedOut(s1, now) /\ ~RaisesAttributeError(s1)
                         /\ ~s1.current_order_is_risk)
          /\ IF ~TimedOut(s1, now)
             THEN /\ st' = s1
                  /\ UNCHANGED <<toPc, toMs, toOid>>
             ELSE IF RaisesAttributeError(s1)
             THEN /\ st' = s2
                  /\ UNCHANGED <<toPc, toMs, toOid>>
             ELSE IF limited
             THEN /\ st' = AfterCancel(TimeoutRotated(s2), now)
                  /\ UNCHANGED <<toPc, toMs, toOid>>
             ELSE /\ st' = TimeoutRotated(s2)
                  /\ toPc' = "await_cancel"
                  /\ toMs' = now
                  /\ toOid' = s2.current_order_id
          /\ limiter_rejected' = IF limited /\ s2.current_order_id \in placed_risk
                                  THEN limiter_rejected \cup {"risk_cancel"}
                                  ELSE limiter_rejected
    /\ signal_call' = NoSignalCall
    /\ UNCHANGED <<now, sidePc, intent, placeRes, exStatus, ws, nextId, placed_filled,
                   placed_risk>>

\* The cancel REST call returns to check_timeout.  It succeeds only for an
\* order that is still open; a failure leaves the exchange as it is.
CancelReturn(success) ==
    /\ UNCHANGED <<stopVars, calVars, shutdownVars, keyVars, laterVars>>
    /\ toPc = "await_cancel"
    /\ IF success
       THEN /\ exStatus[toOid] \in {"open", "partial"}
            /\ Len(ws) < MaxWs
            /\ exStatus' = [exStatus EXCEPT ![toOid] = "canceled"]
            /\ ws' = Append(ws, [order_id |-> toOid, status |-> "CANCELED",
                                 filled_qty |-> IF exStatus[toOid] = "partial" THEN 1 ELSE 0])
       ELSE UNCHANGED <<exStatus, ws>>
    /\ st' = AfterCancel(st, toMs)
    /\ toPc' = "idle"
    /\ toMs' = 0
    /\ toOid' = NoId
    /\ signal_call' = NoSignalCall
    /\ UNCHANGED <<now, sidePc, intent, placeRes, nextId, on_fill_calls, placed_filled, overlapped, placed_risk, limiter_rejected>>

\* The exchange trades, cancels or expires a resting order and reports it on the
\* user-data stream.
ExOrderEvent(id, status) ==
    /\ UNCHANGED <<stopVars, calVars, shutdownVars, keyVars, laterVars>>
    /\ exStatus[id] \in {"open", "partial"}
    /\ status = "PARTIALLY_FILLED" => exStatus[id] = "open"
    /\ Len(ws) < MaxWs
    /\ exStatus' = [exStatus EXCEPT ![id] =
                        CASE status = "FILLED" -> "filled"
                          [] status = "PARTIALLY_FILLED" -> "partial"
                          [] status = "CANCELED" -> "canceled"
                          [] OTHER -> "expired"]
    /\ ws' = Append(ws, [order_id |-> id, status |-> status,
                         filled_qty |-> IF status \in {"FILLED", "PARTIALLY_FILLED"}
                                           \/ exStatus[id] = "partial" THEN 1 ELSE 0])
    /\ signal_call' = NoSignalCall
    /\ UNCHANGED <<now, st, sidePc, intent, placeRes, toPc, toMs, toOid, nextId,
                   on_fill_calls, placed_filled, overlapped,
                   placed_risk, limiter_rejected>>

\* _on_order_update -> _handle_order_update -> engine.on_order_update
HandleOrderUpdate ==
    /\ UNCHANGED <<stopVars, calVars, shutdownVars, keyVars, laterVars>>
    /\ ws # <<>>
    /\ LET update == Head(ws)
           s1 == Flush(st, now)
       IN /\ st' = OnOrderUpdateState(s1, update, now)
          /\ on_fill_calls' = Emit(Emit(on_fill_calls, FlushEmits(st, now)),
                                   OnOrderUpdateEmits(s1, update, now))
    /\ ws' = Tail(ws)
    /\ overlapped' = overlapped \cup PendingAwaits("update")
    /\ signal_call' = NoSignalCall
    /\ UNCHANGED <<now, sidePc, intent, placeRes, toPc, toMs, toOid, exStatus, nextId,
                   placed_filled, placed_risk, limiter_rejected>>

\* ------------------------------------------- Part II: protective stop, latch

\* ExternalTakeoverState defaults.  first_seen_ms, last_verify_ms and
\* last_verify_present are only read by the verify scheduler and the logs.
InitLatch == [active |-> FALSE, pending_release |-> FALSE, last_seen_ms |-> 0]

\* Application._external_takeover_set
ExternalTakeoverSet(l, now_ms) ==
    IF ~external_takeover_enabled THEN l
    ELSE [l EXCEPT !.active = TRUE,
                   !.pending_release = IF l.active THEN @ ELSE FALSE,
                   !.last_seen_ms = now_ms]

\* Application._external_takeover_request_release
ExternalTakeoverRequestRelease(l, now_ms) ==
    IF ~external_takeover_enabled \/ ~l.active THEN l
    ELSE [l EXCEPT !.pending_release = TRUE, !.last_seen_ms = now_ms]

\* Application._external_takeover_release
ExternalTakeoverRelease(l, now_ms) ==
    IF ~external_takeover_enabled THEN l
    ELSE [l EXCEPT !.active = FALSE, !.pending_release = FALSE, !.last_seen_ms = now_ms]

\* Application._external_takeover_is_active
ExternalTakeoverIsActive(l) == external_takeover_enabled /\ l.active

\* a sweep handler without the fallback of lines 468-476: only a pending
\* release is settled
AfterSweepNeedsPending(l, present, now_ms) ==
    IF ~external_takeover_enabled THEN l
    ELSE IF present
         THEN [ExternalTakeoverSet(l, now_ms) EXCEPT !.pending_release = FALSE]
         ELSE IF l.active /\ l.pending_release
              THEN ExternalTakeoverRelease(l, now_ms)
              ELSE l

\* a sweep handler that settles a pending release before it looks at `present`
AfterSweepPendingFirst(l, present, now_ms) ==
    IF l.active /\ l.pending_release THEN ExternalTakeoverRelease(l, now_ms)
    ELSE IF present THEN ExternalTakeoverSet(l, now_ms)
    ELSE l

\* Application._sync_protective_stop, lines 453-476: the latch after a sweep
\* that reported `present` for the side
AfterSweep(l, present, now_ms) ==
    IF ~external_takeover_enabled THEN l
    ELSE IF present
         THEN [ExternalTakeoverSet(l, now_ms) EXCEPT !.pending_release = FALSE]
         ELSE IF l.active /\ l.pending_release
              THEN ExternalTakeoverRelease(l, now_ms)
              ELSE IF l.active /\ now_ms - l.last_seen_ms >= verify_ms
                   THEN ExternalTakeoverRelease(l, now_ms)
                   ELSE l

\* _sync_protective_stop, line 468: the latch is active and has not been seen
\* for the REST verify interval
Overdue(l, now_ms) == l.active /\ now_ms - l.last_seen_ms >= verify_ms

\* Application._sync_protective_stop: needs_resync
NeedsResync(l, present, now_ms) ==
    /\ external_takeover_enabled
    /\ ~present
    /\ l.active
    /\ (l.pending_release \/ now_ms - l.last_seen_ms >= verify_ms)

\* helpers.round_up_to_tick of num/den with tick_size 1
RoundUpToTick(num, den) == IF num % den > 0 THEN (num \div den) + 1 ELSE num \div den

\* helpers.round_to_tick of num/den with tick_size 1
RoundToTick(num, den) == num \div den

\* ProtectiveStopManager.compute_stop_price
ComputeStopPrice(position_side, liquidation_price) ==
    IF position_side = "LONG"
    THEN RoundUpToTick(liquidation_price * DistDen, DistDen - DistNum)
    ELSE RoundToTick(liquidation_price * DistDen, DistDen + DistNum)

\* _sync_side, lines 761-769: the desired price is looser than the existing one
Looser(position_side, desired, existing) ==
    \/ position_side = "LONG" /\ desired < existing
    \/ position_side = "SHORT" /\ desired > existing

NoPosition == [amt |-> 0, liq |-> 0]

\* no protective_stop_sync task
NoSync ==
    [pc |-> "none", verify |-> FALSE, has_external_stop_latch |-> FALSE, now_ms |-> 0,
     dups |-> <<>>, keep_order |-> 0, keep_price |-> 0, has_external_stop |-> FALSE,
     position |-> NoPosition]

NoSyncLog ==
    [latched |-> FALSE, ext |-> FALSE, had_pos |-> FALSE, had_stop |-> FALSE, own_count |-> 0,
     tighter |-> FALSE, cancels |-> 0, places |-> 0, removed |-> FALSE,
     cancel_failed |-> FALSE,
     failure |-> FALSE, fetch_failed |-> FALSE, ended |-> FALSE, stop_after |-> FALSE,
     prev_price |-> 0, placed_price |-> 0,
     swept |-> FALSE, present |-> FALSE, was_active |-> FALSE, was_pending |-> FALSE,
     was_overdue |-> FALSE,
     active |-> FALSE, pending_release |-> FALSE]

CancelPcs == {"cancel_dup", "cancel_no_position", "cancel_external", "cancel_existing"}

\* the own stops open on the exchange, in listing order
ExistingOrders(stops) == SelectSeq([i \in StopIds |-> i], LAMBDA i : stops[i] # 0)

\* the side has an exchange-side stop
HasStop(stops, ext) == ext \/ \E i \in StopIds : stops[i] # 0

\* a _sync_side without the latch check of lines 686-721
DecideWithoutLatch(s, position_side, enabled) ==
    LET has_position == s.position.amt # 0
        desired == ComputeStopPrice(position_side, s.position.liq)
    IN IF ~enabled \/ ~has_position
       THEN IF s.keep_order # 0 THEN "cancel_no_position" ELSE "done"
       ELSE IF s.has_external_stop
       THEN IF s.keep_order # 0 THEN "cancel_external" ELSE "done"
       ELSE IF s.position.liq <= 0 THEN "done"
       ELSE IF s.keep_order # 0 /\ Looser(position_side, desired, s.keep_price) THEN "done"
       ELSE IF s.keep_order # 0 /\ desired = s.keep_price THEN "done"
       ELSE IF s.keep_order # 0 THEN "cancel_existing"
       ELSE "place"

\* a _sync_side without the external-stop branch of lines 635-682
DecideWithoutExternal(s, position_side, enabled) ==
    LET has_position == s.position.amt # 0
        desired == ComputeStopPrice(position_side, s.position.liq)
    IN IF ~enabled \/ ~has_position
       THEN IF s.keep_order # 0 THEN "cancel_no_position" ELSE "done"
       ELSE IF s.has_external_stop_latch THEN "done"
       ELSE IF s.position.liq <= 0 THEN "done"
       ELSE IF s.keep_order # 0 /\ Looser(position_side, desired, s.keep_price) THEN "done"
       ELSE IF s.keep_order # 0 /\ desired = s.keep_price THEN "done"
       ELSE IF s.keep_order # 0 THEN "cancel_existing"
       ELSE "place"

\* a _sync_side without the equal-price return of lines 779-787
DecideReplacesEqual(s, position_side, enabled) ==
    LET has_position == s.position.amt # 0
        desired == ComputeStopPrice(position_side, s.position.liq)
    IN IF ~enabled \/ ~has_position
       THEN IF s.keep_order # 0 THEN "cancel_no_position" ELSE "done"
       ELSE IF s.has_external_stop
       THEN IF s.keep_order # 0 THEN "cancel_external" ELSE "done"
       ELSE IF s.has_external_stop_latch THEN "done"
       ELSE IF s.position.liq <= 0 THEN "done"
       ELSE IF s.keep_order # 0 /\ Looser(position_side, desired, s.keep_price) THEN "done"
       ELSE IF s.keep_order # 0 THEN "cancel_existing"
       ELSE "place"

\* _sync_side after the duplicate loop, lines 609-796: the REST call it issues
\* next, "done" when it returns without one
Decide(s, position_side, enabled) ==
    LET has_position == s.position.amt # 0
        desired == ComputeStopPrice(position_side, s.position.liq)
    IN IF ~enabled \/ ~has_position
       THEN IF s.keep_order # 0 THEN "cancel_no_position" ELSE "done"
       ELSE IF s.has_external_stop
       THEN IF s.keep_order # 0 THEN "cancel_external" ELSE "done"
       ELSE IF s.has_external_stop_latch THEN "done"
       ELSE IF s.position.liq <= 0 THEN "done"
       ELSE IF s.keep_order # 0 /\ Looser(position_side, desired, s.keep_price) THEN "done"
       ELSE IF s.keep_order # 0 /\ desired = s.keep_price THEN "done"
       ELSE IF s.keep_order # 0 THEN "cancel_existing"
       ELSE "place"

\* spy: one more REST request issued by the sync
Requested(log, pc) ==
    IF pc \in CancelPcs THEN [log EXCEPT !.cancels = IF @ < 3 THEN @ + 1 ELSE @]
    ELSE IF pc = "place" THEN [log EXCEPT !.places = @ + 1]
    ELSE log

\* spy: an own stop is placed at stop_price, after the one placed at prev_price
Placed(log, prev_price, stop_price) ==
    [log EXCEPT !.prev_price = prev_price, !.placed_price = stop_price]

\* sync_symbol returns to _sync_protective_stop: the latch is settled, and the
\* task ends or runs the release resync.
SyncEnds(present, log, stops_after) ==
    LET after == AfterSweep(latch, present, sync.now_ms)
    IN /\ latch' = after
       /\ syncLog' = [log EXCEPT !.ended = TRUE,
                                  !.stop_after = HasStop(stops_after, extStop),
                                  !.swept = TRUE, !.present = present,
                                  !.was_active = latch.active,
                                  !.was_pending = latch.pending_release,
                                  !.was_overdue = Overdue(latch, sync.now_ms),
                                  !.active = after.active,
                                  !.pending_release = after.pending_release]
       /\ sync' = IF NeedsResync(latch, present, sync.now_ms)
                  THEN [NoSync EXCEPT !.pc = "fetching", !.verify = sync.verify,
                                      !.has_external_stop_latch = ExternalTakeoverIsActive(after),
                                      !.now_ms = now]
                  ELSE [NoSync EXCEPT !.pc = "done"]

\* _sync_side goes on to its next REST call, or returns
SyncGoesOn(s, pc, log, stops_after) ==
    IF pc = "done"
    THEN SyncEnds(s.has_external_stop, log, stops_after)
    ELSE /\ sync' = [s EXCEPT !.pc = pc]
         /\ syncLog' = Requested(log, pc)
         /\ UNCHANGED latch

\* The running task is cancelled at its await (task.cancel() by a newer request
\* or by shutdown); the REST request in flight reaches the exchange or not.
TaskCancelled(lands, closed) ==
    LET target == IF sync.pc = "cancel_dup" THEN Head(sync.dups) ELSE sync.keep_order
        cancels == sync.pc \in CancelPcs /\ lands /\ ownStops[target] # 0
        places == sync.pc = "place" /\ lands /\ nextStop \in StopIds
        desired == ComputeStopPrice(psSide, sync.position.liq)
        stops_after == IF cancels THEN [ownStops EXCEPT ![target] = 0]
                       ELSE IF places THEN [ownStops EXCEPT ![nextStop] = desired]
                       ELSE ownStops
    IN /\ lands => (cancels \/ places)
       /\ ownStops' = stops_after
       /\ nextStop' = IF places THEN nextStop + 1 ELSE nextStop
       /\ last_own_price' = IF places THEN desired ELSE IF closed THEN 0 ELSE last_own_price
       /\ syncLog' = IF sync.pc \in CancelPcs \cup {"place"}
                     THEN LET log == [syncLog EXCEPT !.ended = TRUE, !.failure = TRUE,
                                                     !.removed = @ \/ cancels,
                                                     !.stop_after = HasStop(stops_after, extStop)]
                          IN IF places THEN Placed(log, IF closed THEN 0 ELSE last_own_price, desired)
                             ELSE log
                     ELSE syncLog

\* Application._schedule_protective_stop_sync
Schedule(verify, lands, closed) ==
    /\ running
    /\ ~(verify /\ sync.pc \notin {"none", "done"} /\ sync.verify)
    /\ TaskCancelled(lands, closed)
    /\ sync' = [NoSync EXCEPT !.pc = "debounce", !.verify = verify]

InitStop ==
    /\ running = TRUE
    /\ psSide \in {"LONG", "SHORT"}
    /\ position = NoPosition
    /\ ownStops = [i \in StopIds |-> 0]
    /\ extStop = FALSE
    /\ nextStop = 1
    /\ algoWs = "none"
    /\ latch = InitLatch
    /\ sync = NoSync
    /\ syncLog = NoSyncLog
    /\ last_own_price = 0

\* the clock advances while the reconciler is followed
StopTick ==
    /\ running
    /\ now < MaxStopTime
    /\ now' = now + 1
    /\ signal_call' = NoSignalCall
    /\ UNCHANGED <<st, sidePc, intent, placeRes, toPc, toMs, toOid, exStatus, ws, nextId,
                   on_fill_calls, placed_filled, overlapped, placed_risk, limiter_rejected>>
    /\ UNCHANGED <<stopVars, calVars, shutdownVars, keyVars, laterVars>>

\* Application._refresh_position / _fetch_positions: the cache takes the
\* position the exchange reports over REST
RefreshPosition(amt, liq) ==
    /\ running
    /\ position' = IF amt = 0 THEN NoPosition ELSE [amt |-> amt, liq |-> liq]
    /\ position' # position
    /\ last_own_price' = IF amt = 0 THEN 0 ELSE last_own_price
    /\ UNCHANGED <<running, psSide, ownStops, extStop, nextStop, algoWs, latch, sync,
                   syncLog>>
    /\ UNCHANGED <<execVars, calVars, shutdownVars, keyVars, laterVars>>

\* Application._on_position_update (ACCOUNT_UPDATE): the amount changes, the
\* liquidation price is carried over from the cached position
PositionUpdate(amt, lands) ==
    /\ amt # position.amt
    /\ position' = IF amt = 0 THEN NoPosition ELSE [amt |-> amt, liq |-> position.liq]
    /\ Schedule(FALSE, lands, amt = 0)
    /\ UNCHANGED <<running, psSide, extStop, algoWs, latch>>
    /\ UNCHANGED <<execVars, calVars, shutdownVars, keyVars, laterVars>>

\* A stop order is placed on the side from outside the program
ExternalStopPlaced ==
    /\ running
    /\ ~extStop
    /\ extStop' = TRUE
    /\ algoWs' = "NEW"
    /\ UNCHANGED <<running, psSide, position, ownStops, nextStop, latch, sync,
                   syncLog, last_own_price>>
    /\ UNCHANGED <<execVars, calVars, shutdownVars, keyVars, laterVars>>

\* The external stop is cancelled, expires or triggers
ExternalStopGone ==
    /\ running
    /\ extStop
    /\ extStop' = FALSE
    /\ algoWs' = "CANCELED"
    /\ UNCHANGED <<running, psSide, position, ownStops, nextStop, latch, sync,
                   syncLog, last_own_price>>
    /\ UNCHANGED <<execVars, calVars, shutdownVars, keyVars, laterVars>>

\* An own stop leaves the book without the program asking (cancelled by hand,
\* expired)
OwnStopVanishes(id) ==
    /\ running
    /\ ownStops[id] # 0
    /\ ownStops' = [ownStops EXCEPT ![id] = 0]
    /\ UNCHANGED <<running, psSide, position, extStop, nextStop, algoWs, latch, sync,
                   syncLog, last_own_price>>
    /\ UNCHANGED <<execVars, calVars, shutdownVars, keyVars, laterVars>>

\* Application._on_algo_order_update for an external stop
OnAlgoOrderUpdate(lands) ==
    /\ algoWs # "none"
    /\ algoWs' = "none"
    /\ IF running
       THEN /\ latch' = IF algoWs = "NEW" THEN ExternalTakeoverSet(latch, now)
                        ELSE ExternalTakeoverRequestRelease(latch, now)
            /\ Schedule(FALSE, lands, FALSE)
       ELSE /\ ~lands
            /\ UNCHANGED <<latch, sync, ownStops, nextStop, last_own_price, syncLog>>
    /\ UNCHANGED <<running, psSide, position, extStop>>
    /\ UNCHANGED <<execVars, calVars, shutdownVars, keyVars, laterVars>>

\* Application._on_algo_order_update / _handle_order_update for an own stop:
\* a sync is requested
ScheduleSync(lands) ==
    /\ Schedule(FALSE, lands, FALSE)
    /\ UNCHANGED <<running, psSide, position, extStop, algoWs, latch>>
    /\ UNCHANGED <<execVars, calVars, shutdownVars, keyVars, laterVars>>

\* Application._check_all_timeouts, lines 1680-1687: the verify sync of a latched side
ScheduleVerify(lands) ==
    /\ ExternalTakeoverIsActive(latch)
    /\ Schedule(TRUE, lands, FALSE)
    /\ UNCHANGED <<running, psSide, position, extStop, algoWs, latch>>
    /\ UNCHANGED <<execVars, calVars, shutdownVars, keyVars, laterVars>>

\* _runner: the debounce is over, _sync_protective_stop reads the latch and calls
\* sync_symbol
SyncStart ==
    /\ sync.pc = "debounce"
    /\ sync' = [sync EXCEPT !.pc = "fetching",
                            !.has_external_stop_latch = ExternalTakeoverIsActive(latch),
                            !.now_ms = now]
    /\ syncLog' = NoSyncLog
    /\ UNCHANGED <<running, psSide, position, ownStops, extStop, nextStop, algoWs,
                   latch, last_own_price>>
    /\ UNCHANGED <<execVars, calVars, shutdownVars, keyVars, laterVars>>

\* sync_symbol: the open-order fetches return (or fetch_open_orders raises), the
\* orders are classified and _sync_side runs up to its first REST call
SyncFetched(ok) ==
    /\ sync.pc = "fetching"
    /\ LET existing == ExistingOrders(ownStops)
           keep == IF existing = <<>> THEN 0 ELSE Head(existing)
           s == [sync EXCEPT !.dups = IF existing = <<>> THEN <<>> ELSE Tail(existing),
                             !.keep_order = keep,
                             !.keep_price = IF keep = 0 THEN 0 ELSE ownStops[keep],
                             !.has_external_stop = extStop,
                             !.position = position]
           desired == ComputeStopPrice(psSide, position.liq)
           log == [NoSyncLog EXCEPT !.latched = sync.has_external_stop_latch,
                                    !.had_pos = position.amt # 0,
                                    !.had_stop = HasStop(ownStops, extStop)]
       IN IF ok
          THEN SyncGoesOn(s,
                          IF s.dups # <<>> THEN "cancel_dup" ELSE Decide(s, psSide, protective_stop_enabled),
                          [log EXCEPT !.ext = extStop, !.own_count = Len(existing),
                                      !.tighter = /\ keep # 0 /\ position.liq > 0
                                                  /\ desired # ownStops[keep]
                                                  /\ ~Looser(psSide, desired, ownStops[keep])],
                          ownStops)
          ELSE SyncEnds(FALSE, [log EXCEPT !.failure = TRUE, !.fetch_failed = TRUE], ownStops)
    /\ UNCHANGED <<running, psSide, position, ownStops, extStop, nextStop, algoWs,
                   last_own_price>>
    /\ UNCHANGED <<execVars, calVars, shutdownVars, keyVars, laterVars>>

\* exchange.cancel_order returns to _sync_side.  The adapter reports a failure
\* as an unsuccessful OrderResult; it does not raise.
RestCancelReturn(success) ==
    /\ sync.pc \in CancelPcs
    /\ LET target == IF sync.pc = "cancel_dup" THEN Head(sync.dups) ELSE sync.keep_order
           stops_after == IF success THEN [ownStops EXCEPT ![target] = 0] ELSE ownStops
           log == [syncLog EXCEPT !.failure = @ \/ ~success,
                                  !.removed = @ \/ success,
                                  !.cancel_failed = @ \/ (sync.pc = "cancel_existing" /\ ~success)]
           s == IF sync.pc = "cancel_dup" THEN [sync EXCEPT !.dups = Tail(@)] ELSE sync
       IN /\ success => ownStops[target] # 0
          /\ ownStops' = stops_after
          /\ SyncGoesOn(s,
                        CASE sync.pc = "cancel_dup" ->
                                IF s.dups # <<>> THEN "cancel_dup" ELSE Decide(s, psSide, protective_stop_enabled)
                          [] sync.pc = "cancel_existing" -> "place"
                          [] OTHER -> "done",
                        log, stops_after)
    /\ UNCHANGED <<running, psSide, position, extStop, nextStop, algoWs, last_own_price>>
    /\ UNCHANGED <<execVars, calVars, shutdownVars, keyVars, laterVars>>

\* exchange.place_order returns to _sync_side
RestPlaceReturn(success) ==
    /\ sync.pc = "place"
    /\ LET desired == ComputeStopPrice(psSide, sync.position.liq)
           stops_after == IF success THEN [ownStops EXCEPT ![nextStop] = desired] ELSE ownStops
       IN /\ success => nextStop \in StopIds
          /\ ownStops' = stops_after
          /\ nextStop' = IF success THEN nextStop + 1 ELSE nextStop
          /\ last_own_price' = IF success THEN desired ELSE last_own_price
          /\ SyncEnds(sync.has_external_stop,
                      IF success THEN Placed(syncLog, last_own_price, desired)
                      ELSE [syncLog EXCEPT !.failure = TRUE],
                      stops_after)
    /\ UNCHANGED <<running, psSide, position, extStop, algoWs>>
    /\ UNCHANGED <<execVars, calVars, shutdownVars, keyVars, laterVars>>

\* Application._on_protective_stop_task_done: the finished task is forgotten
OnProtectiveStopTaskDone ==
    /\ sync.pc = "done"
    /\ sync' = NoSync
    /\ syncLog' = NoSyncLog
    /\ UNCHANGED <<running, psSide, position, ownStops, extStop, nextStop, algoWs, latch,
                   last_own_price>>
    /\ UNCHANGED <<execVars, calVars, shutdownVars, keyVars, laterVars>>

\* Application.shutdown: the running protective-stop task is cancelled, the
\* stops stay on the exchange
Shutdown(lands) ==
    /\ running
    /\ sync.pc \notin {"none", "done"}
    /\ running' = FALSE
    /\ TaskCancelled(lands, FALSE)
    /\ sync' = NoSync
    /\ UNCHANGED <<psSide, position, extStop, algoWs, latch>>
    /\ UNCHANGED <<execVars, calVars, shutdownVars, keyVars, laterVars>>

\* ------------------------------------------- Part III: reconnect calibration

MaxReconnects == 3

\* no calibration task yet
NoCal == [pc |-> "none", req |-> 0]

InitCal ==
    /\ calibrating = FALSE
    /\ cal = NoCal
    /\ reconnects = 0
    /\ cache = [rules |-> 0, positions |-> 0]
    /\ cal_failed = FALSE

\* `self._calibration_task and not self._calibration_task.done()`
CalibrationTaskPending == cal.pc \notin {"none", "done"}

\* a step of another task: the engine state stays as it is
ExecUntouched ==
    /\ signal_call' = NoSignalCall
    /\ UNCHANGED <<now, st, sidePc, intent, placeRes, toPc, toMs, toOid, exStatus, ws, nextId,
                   on_fill_calls, placed_filled, overlapped, placed_risk, limiter_rejected>>

\* Application._on_ws_reconnect: a reconnect that finds a calibration task not
\* yet done starts nothing
OnWsReconnect ==
    /\ running
    /\ reconnects < MaxReconnects
    /\ reconnects' = reconnects + 1
    /\ cal' = IF CalibrationTaskPending THEN cal ELSE [pc |-> "created", req |-> 0]
    /\ UNCHANGED <<calibrating, cache, cal_failed>>
    /\ ExecUntouched
    /\ UNCHANGED <<stopVars, shutdownVars, keyVars, laterVars>>

\* _calibrate_after_reconnect up to its first suspension: the lock is free (there
\* is one calibration task at a time), calibrating is set, load_markets is sent
CalibrateStart ==
    /\ cal.pc = "created"
    /\ running
    /\ calibrating' = TRUE
    /\ cal' = [pc |-> "load_markets", req |-> reconnects]
    /\ UNCHANGED <<reconnects, cache, cal_failed>>
    /\ ExecUntouched
    /\ UNCHANGED <<stopVars, shutdownVars, keyVars, laterVars>>

\* load_markets returns: _rules is refilled, _fetch_positions asks for the leverage map
CalMarketsLoaded ==
    /\ cal.pc = "load_markets"
    /\ cache' = [cache EXCEPT !.rules = cal.req]
    /\ cal' = [pc |-> "fetch_leverage", req |-> 0]
    /\ UNCHANGED <<calibrating, reconnects, cal_failed>>
    /\ ExecUntouched
    /\ UNCHANGED <<stopVars, shutdownVars, keyVars, laterVars>>

\* fetch_leverage_map returns or raises (caught in _fetch_positions):
\* fetch_positions is sent
CalLeverageFetched ==
    /\ cal.pc = "fetch_leverage"
    /\ cal' = [pc |-> "fetch_positions", req |-> reconnects]
    /\ UNCHANGED <<calibrating, reconnects, cache, cal_failed>>
    /\ ExecUntouched
    /\ UNCHANGED <<stopVars, shutdownVars, keyVars, laterVars>>

\* fetch_positions returns: _positions is replaced, the protective stops are synced
CalPositionsFetched ==
    /\ cal.pc = "fetch_positions"
    /\ cache' = [cache EXCEPT !.positions = cal.req]
    /\ cal' = [pc |-> "sync_stops", req |-> 0]
    /\ UNCHANGED <<calibrating, reconnects, cal_failed>>
    /\ ExecUntouched
    /\ UNCHANGED <<stopVars, shutdownVars, keyVars, laterVars>>

\* _sync_protective_stops_all returns: `finally` clears calibrating
CalStopsSynced ==
    /\ cal.pc = "sync_stops"
    /\ calibrating' = FALSE
    /\ cal' = [pc |-> "done", req |-> 0]
    /\ UNCHANGED <<reconnects, cache, cal_failed>>
    /\ ExecUntouched
    /\ UNCHANGED <<stopVars, shutdownVars, keyVars, laterVars>>

\* load_markets or fetch_positions raises: logged, `finally` clears calibrating
CalRaises ==
    /\ cal.pc \in {"load_markets", "fetch_positions"}
    /\ calibrating' = FALSE
    /\ cal' = [pc |-> "done", req |-> 0]
    /\ cal_failed' = TRUE
    /\ UNCHANGED <<reconnects, cache>>
    /\ ExecUntouched
    /\ UNCHANGED <<stopVars, shutdownVars, keyVars, laterVars>>

\* the calibration task runs on
CalStep ==
    \/ CalibrateStart
    \/ CalMarketsLoaded
    \/ CalLeverageFetched
    \/ CalPositionsFetched
    \/ CalStopsSynced

\* the calibration task beside the side loop of one key
NextCal ==
    \/ OnWsReconnect
    \/ CalStep
    \/ CalRaises
    \/ \E panic, signal, risk_flag, has_qty, limited \in BOOLEAN :
            EvaluateSymbolSide(panic, signal, risk_flag, has_qty, limited)
    \/ \E outcome \in {"NEW", "PARTIALLY_FILLED", "FILLED", "REJECTED"} : ExAccept(outcome)
    \/ PlaceReturn

\* ------------------------------- Part IV: client order ids and shutdown

\* main.py: CLIENT_ORDER_PREFIX and PROTECTIVE_STOP_PREFIX ("vq-ps-").  A client
\* order id is the sequence of its dash-separated parts.
CLIENT_ORDER_PREFIX == "vq"
PROTECTIVE_STOP_PREFIX == <<CLIENT_ORDER_PREFIX, "ps">>

\* uuid4().hex[:10] of this run
run_id == "a1f0"

\* the orders on the book of the symbol: the program's limit exit order, its
\* panic-close order and its protective stop, an order left by another run of
\* the program, and an order entered by hand
Kinds == {"limit", "panic", "stop", "other_run", "manual"}

\* _init_run_identity: f"{CLIENT_ORDER_PREFIX}-{run_id}-"
ClientOrderIdPrefix == <<CLIENT_ORDER_PREFIX, run_id>>

\* Application._next_client_order_id: prefix + uuid4 hex
NextClientOrderId == ClientOrderIdPrefix \o <<"uuid">>

\* ProtectiveStopManager._build_client_order_id_prefix
BuildClientOrderIdPrefix(position_side) ==
    PROTECTIVE_STOP_PREFIX \o <<"btcusdt", IF position_side = "LONG" THEN "L" ELSE "S">>

\* ProtectiveStopManager.build_client_order_id: prefix + "-" + timestamp
BuildClientOrderId(position_side) == BuildClientOrderIdPrefix(position_side) \o <<"ts">>

\* client order ids of orders the program did not place in this run
ForeignClientOrderId(k) ==
    IF k = "other_run" THEN <<CLIENT_ORDER_PREFIX, "77c2", "uuid">> ELSE <<"web", "uuid">>

\* str.startswith
StartsWith(cid, prefix) ==
    Len(cid) >= Len(prefix) /\ SubSeq(cid, 1, Len(prefix)) = prefix

\* a cleanup that recognises its orders by the brand alone
MatchesBrandOnly(cid) == cid # <<>> /\ StartsWith(cid, <<CLIENT_ORDER_PREFIX>>)

\* _cancel_own_orders, lines 1803-1804: the orders the cleanup does not skip
CleanupMatches(cid) == cid # <<>> /\ StartsWith(cid, ClientOrderIdPrefix)

\* the waits of shutdown(), in order
Stages == <<"main_tasks", "side_tasks", "ps_tasks", "cleanup", "ws_disconnect",
            "ws_tasks", "exchange_close", "telegram_tasks", "telegram_close">>

\* the waits on tasks that exist already: shutdown cancels them before it waits
TaskStages == {"main_tasks", "side_tasks", "ps_tasks", "ws_tasks", "telegram_tasks"}

\* shutdown() has returned
ShutdownDone == Len(Stages) + 1

NoOrder == [status |-> "none", cid |-> <<>>]
NoCleanup == [pc |-> "none", todo |-> {}, cur |-> "none"]

InitShutdown ==
    /\ book = [k \in Kinds |-> NoOrder]
    /\ sd = [stage |-> 0, pc |-> "idle", timed |-> FALSE]
    /\ grp = [status |-> "none", cancelled |-> FALSE]
    /\ cleanup = NoCleanup
    /\ sd_cancels = {}

\* a step that leaves the engine, the stops and the calibration alone
OthersUntouched ==
    /\ ExecUntouched
    /\ UNCHANGED <<psSide, position, ownStops, extStop, nextStop, algoWs, latch, sync, syncLog,
                   last_own_price>>
    /\ UNCHANGED <<calVars, keyVars, laterVars>>

\* awaitables that swallow the CancelledError and block again
NeverEndsOnCancel(stage) == FALSE

\* What a cancelled group of awaitables does.  _side_loop, _timeout_check_loop
\* and the stop runner leave at `except asyncio.CancelledError`; _main_loop,
\* the calibration, _cancel_own_orders, the WS tasks, the Telegram tasks and the
\* close() calls only catch Exception, so the CancelledError ends them.
EndsOnCancel(stage) == stage \in {Stages[i] : i \in 1..Len(Stages)}

\* _gather_with_timeout entered for a stage.  all_done: nothing is left to wait
\* for (the tasks have finished, or the object to close does not exist).
EnterStage(n, all_done) ==
    [status |-> IF all_done THEN "done" ELSE "pending",
     cancelled |-> Stages[n] \in TaskStages]

\* _place_order, lines 880-884: an engine intent carries no client order id and
\* gets the next one of the run before it is sent
PlaceOwnOrder(k) ==
    /\ running
    /\ k \in {"limit", "panic"}
    /\ book[k].status = "none"
    /\ book' = [book EXCEPT ![k] = [status |-> "open", cid |-> NextClientOrderId]]
    /\ UNCHANGED <<running, sd, grp, cleanup, sd_cancels>>
    /\ OthersUntouched

\* _sync_side, lines 798-812: the stop is sent with the id build_client_order_id gives
PlaceProtectiveStop ==
    /\ running
    /\ book["stop"].status = "none"
    /\ book' = [book EXCEPT !["stop"] = [status |-> "open", cid |-> BuildClientOrderId(psSide)]]
    /\ UNCHANGED <<running, sd, grp, cleanup, sd_cancels>>
    /\ OthersUntouched

\* another run of the program has left an order, or one is entered by hand
OtherOrderAppears(k) ==
    /\ k \in {"other_run", "manual"}
    /\ book[k].status = "none"
    /\ book' = [book EXCEPT ![k] = [status |-> "open", cid |-> ForeignClientOrderId(k)]]
    /\ UNCHANGED <<running, sd, grp, cleanup, sd_cancels>>
    /\ OthersUntouched

\* an open order trades or triggers
OrderLeavesBook(k) ==
    /\ book[k].status = "open"
    /\ book' = [book EXCEPT ![k].status = "closed"]
    /\ UNCHANGED <<running, sd, grp, cleanup, sd_cancels>>
    /\ OthersUntouched

\* shutdown(), lines 1689-1705: _running is cleared, the main-loop tasks are
\* cancelled and the first wait begins
ShutdownBegin(all_done) ==
    /\ running
    /\ sd.stage = 0
    /\ running' = FALSE
    /\ sd' = [sd EXCEPT !.stage = 1, !.pc = "wait"]
    /\ grp' = EnterStage(1, all_done)
    /\ UNCHANGED <<book, cleanup, sd_cancels>>
    /\ OthersUntouched

\* an awaitable that was not cancelled comes to its end by itself
GroupEnds ==
    /\ sd.pc = "wait"
    /\ Stages[sd.stage] # "cleanup"
    /\ grp.status = "pending" /\ ~grp.cancelled
    /\ grp' = [grp EXCEPT !.status = "done"]
    /\ UNCHANGED <<running, book, sd, cleanup, sd_cancels>>
    /\ OthersUntouched

\* asyncio.wait_for: the timeout expires, the gather and its children are
\* cancelled and wait_for waits for the cancellation to complete
WaitTimesOut ==
    /\ sd.pc = "wait"
    /\ grp.status = "pending"
    /\ sd' = [sd EXCEPT !.pc = "timed_out", !.timed = TRUE]
    /\ grp' = [grp EXCEPT !.cancelled = TRUE]
    /\ UNCHANGED <<running, book, cleanup, sd_cancels>>
    /\ OthersUntouched

\* the cancelled awaitables end.  lands: the cancel request the cleanup had in
\* flight reaches the exchange all the same.
GroupEndsOnCancel(lands) ==
    /\ sd.pc \in {"wait", "timed_out"}
    /\ grp.status = "pending" /\ grp.cancelled
    /\ EndsOnCancel(Stages[sd.stage])
    /\ grp' = [grp EXCEPT !.status = "done"]
    /\ lands => (cleanup.pc = "cancel" /\ book[cleanup.cur].status = "open")
    /\ book' = IF lands THEN [book EXCEPT ![cleanup.cur].status = "canceled"] ELSE book
    /\ cleanup' = IF Stages[sd.stage] = "cleanup" THEN [NoCleanup EXCEPT !.pc = "done"]
                  ELSE cleanup
    /\ UNCHANGED <<running, sd, sd_cancels>>
    /\ OthersUntouched

\* MarketWSClient.disconnect / UserDataWSClient.disconnect: a CancelledError that
\* arrives while they wait for their own cancelled task is swallowed
\* (`except asyncio.CancelledError: pass`); they go on to their timed close calls
DisconnectSwallowsCancel ==
    /\ sd.pc \in {"wait", "timed_out"}
    /\ Stages[sd.stage] = "ws_disconnect"
    /\ grp.status = "pending" /\ grp.cancelled
    /\ grp' = [grp EXCEPT !.status = "closing"]
    /\ UNCHANGED <<running, book, sd, cleanup, sd_cancels>>
    /\ OthersUntouched

\* the close calls of disconnect() return or run into their own wait_for timeouts
DisconnectCloses ==
    /\ grp.status = "closing"
    /\ grp' = [grp EXCEPT !.status = "done"]
    /\ UNCHANGED <<running, book, sd, cleanup, sd_cancels>>
    /\ OthersUntouched

\* _gather_with_timeout returns (the gather is done, or TimeoutError is caught):
\* shutdown goes on to its next wait, or returns
WaitReturns(all_done) ==
    /\ sd.pc \in {"wait", "timed_out"}
    /\ grp.status = "done"
    /\ IF sd.stage = Len(Stages)
       THEN /\ sd' = [sd EXCEPT !.stage = ShutdownDone, !.pc = "done"]
            /\ grp' = [status |-> "none", cancelled |-> FALSE]
            /\ ~all_done
            /\ UNCHANGED cleanup
       ELSE /\ sd' = [sd EXCEPT !.stage = sd.stage + 1, !.pc = "wait"]
            /\ all_done => Stages[sd.stage + 1] # "cleanup"
            /\ grp' = EnterStage(sd.stage + 1, all_done)
            /\ cleanup' = IF Stages[sd.stage + 1] = "cleanup"
                          THEN [NoCleanup EXCEPT !.pc = "fetch"]
                          ELSE cleanup
    /\ UNCHANGED <<running, book, sd_cancels>>
    /\ OthersUntouched

\* _cancel_own_orders: fetch_open_orders returns the open orders of the symbol
\* (with_stops: the exchange lists conditional orders among them) or raises
CleanupFetched(ok, with_stops) ==
    /\ cleanup.pc = "fetch"
    /\ grp.status = "pending" /\ ~grp.cancelled
    /\ ~ok => ~with_stops
    /\ cleanup' = [cleanup EXCEPT
                     !.pc = "loop",
                     !.todo = IF ok
                              THEN {k \in Kinds : /\ book[k].status = "open"
                                                  /\ k = "stop" => with_stops}
                              ELSE {}]
    /\ UNCHANGED <<running, book, sd, grp, sd_cancels>>
    /\ OthersUntouched

\* _cancel_own_orders, lines 1797-1814: the next fetched order is skipped, or
\* its cancel is sent
CleanupNext(k) ==
    /\ cleanup.pc = "loop"
    /\ grp.status = "pending" /\ ~grp.cancelled
    /\ k \in cleanup.todo
    /\ IF CleanupMatches(book[k].cid)
       THEN /\ cleanup' = [cleanup EXCEPT !.pc = "cancel", !.cur = k, !.todo = @ \ {k}]
            /\ sd_cancels' = sd_cancels \cup {k}
       ELSE /\ cleanup' = [cleanup EXCEPT !.todo = @ \ {k}]
            /\ UNCHANGED sd_cancels
    /\ UNCHANGED <<running, book, sd, grp>>
    /\ OthersUntouched

\* cancel_order returns to the cleanup
CleanupCancelReturns(success) ==
    /\ cleanup.pc = "cancel"
    /\ grp.status = "pending" /\ ~grp.cancelled
    /\ success => book[cleanup.cur].status = "open"
    /\ book' = IF success THEN [book EXCEPT ![cleanup.cur].status = "canceled"] ELSE book
    /\ cleanup' = [cleanup EXCEPT !.pc = "loop", !.cur = "none"]
    /\ UNCHANGED <<running, sd, grp, sd_cancels>>
    /\ OthersUntouched

\* _cancel_own_orders has gone through the fetched orders and returns
CleanupEnds ==
    /\ cleanup.pc = "loop"
    /\ grp.status = "pending" /\ ~grp.cancelled
    /\ cleanup.todo = {}
    /\ cleanup' = [cleanup EXCEPT !.pc = "done"]
    /\ grp' = [grp EXCEPT !.status = "done"]
    /\ UNCHANGED <<running, book, sd, sd_cancels>>
    /\ OthersUntouched

\* what the event loop is bound to do once shutdown has begun: timers expire,
\* cancelled tasks run, finished waits return
ShutdownStep ==
    \/ WaitTimesOut
    \/ \E lands \in BOOLEAN : GroupEndsOnCancel(lands)
    \/ DisconnectSwallowsCancel
    \/ DisconnectCloses
    \/ \E all_done \in BOOLEAN : WaitReturns(all_done)

NextShutdown ==
    \/ \E k \in Kinds : PlaceOwnOrder(k)
    \/ PlaceProtectiveStop
    \/ \E k \in Kinds : OtherOrderAppears(k)
    \/ \E k \in Kinds : OrderLeavesBook(k)
    \/ \E all_done \in BOOLEAN : ShutdownBegin(all_done)
    \/ GroupEnds
    \/ ShutdownStep
    \/ \E ok, with_stops \in BOOLEAN : CleanupFetched(ok, with_stops)
    \/ \E k \in Kinds : CleanupNext(k)
    \/ \E success \in BOOLEAN : CleanupCancelReturns(success)
    \/ CleanupEnds

\* --------------------- Part V: one key, the rotation thresholds as inputs

MaxKeyTime == 3
MaxKeyOrders == 2

KeyOrderIds == 1..MaxKeyOrders

\* the thresholds the engine of the key is built with (symbol execution config,
\* not validated by the loader) and the maker_timeouts_to_escalate of the panic
\* tier (validated >= 1)
KeyConfigs ==
    [maker_timeouts_to_escalate : {0, 1},
     aggr_fills_to_deescalate : {0, 1},
     aggr_timeouts_to_deescalate : {0, 1},
     tier_maker_timeouts_to_escalate : {1, 2}]

NoKeyLog ==
    [op |-> "none", mode_before |-> "MAKER_ONLY", order_mode |-> "None", had_fill |-> FALSE,
     count |-> 0, override |-> {}, result |-> "none", returned |-> FALSE]

\* the log of a step that ran no engine handler
KeyLogIdle(s) == [NoKeyLog EXCEPT !.mode_before = s.mode]

KeyIdle == [side |-> "idle", tif |-> "None", to |-> "idle", to_ms |-> 0, to_oid |-> NoId]

\* the key before its first signal
KeyStart ==
    /\ ks = InitState
    /\ know = 0
    /\ kpc = KeyIdle
    /\ kex = [i \in KeyOrderIds |-> "none"]
    /\ knext = 1
    /\ klog = NoKeyLog
    /\ kfail = -1

InitKey == kcfg \in KeyConfigs /\ KeyStart

\* a step of the key: the other parts stay as they are
KeyOthersUntouched ==
    /\ ExecUntouched
    /\ UNCHANGED <<stopVars, calVars, shutdownVars, laterVars>>

\* the clock advances
KeyTick ==
    /\ know < MaxKeyTime
    /\ know' = know + 1
    /\ klog' = KeyLogIdle(ks)
    /\ UNCHANGED <<kcfg, ks, kpc, kex, knext, kfail>>
    /\ KeyOthersUntouched

\* One iteration of _side_loop: _evaluate_symbol_side up to its first suspension
\* (inputs as in EvaluateSymbolSide).
KeyEvaluate(panic, signal, risk_flag, has_qty, limited) ==
    /\ kpc.side = "idle"
    /\ panic \/ signal
    /\ panic => ~signal
    /\ LET s0 == RiskOverridesWith(ks, panic, kcfg.tier_maker_timeouts_to_escalate)
           s1 == CheckCooldown(s0, know)
           s2 == IF ~panic /\ signal /\ risk_flag THEN SetMode(s1, "AGGRESSIVE_LIMIT") ELSE s1
           wants == ReturnsIntent(s2, has_qty)
           s3 == OnSignal(s2, panic, know)
       IN /\ limited => (wants /\ ~panic)
          /\ risk_flag => (signal /\ ~panic)
          /\ IF ~wants
             THEN /\ ks' = s2
                  /\ UNCHANGED <<kpc, kfail>>
             ELSE IF limited
             THEN /\ ks' = OnOrderPlaced(s3, FailedResult, know)
                  /\ kfail' = know
                  /\ UNCHANGED kpc
             ELSE /\ ks' = s3
                  /\ kpc' = [kpc EXCEPT !.side = "place_sent",
                                        !.tif = IF s2.mode = "MAKER_ONLY" THEN "GTX" ELSE "GTC"]
                  /\ UNCHANGED kfail
          /\ klog' = [NoKeyLog EXCEPT !.op = "evaluate", !.mode_before = ks.mode,
                                      !.returned = wants,
                                      !.result = IF wants /\ limited THEN "LIMITED" ELSE "none"]
    /\ UNCHANGED <<kcfg, know, kex, knext>>
    /\ KeyOthersUntouched

\* The placement REST call returns to _evaluate_side with the exchange's answer
\* (the order is booked, rejected, or rejected as post-only with code -5022), and
\* on_order_placed runs.
KeyPlaceReturn(outcome) ==
    /\ kpc.side = "place_sent"
    /\ outcome \in {"NEW", "REJECTED", "POST_ONLY"}
    /\ outcome = "POST_ONLY" => kpc.tif = "GTX"
    /\ outcome = "NEW" => knext \in KeyOrderIds
    /\ LET result == IF outcome = "NEW"
                     THEN [success |-> TRUE, order_id |-> knext, status |-> "NEW", filled_qty |-> 0]
                     ELSE FailedResult
       IN /\ ks' = OnOrderPlaced(ks, result, know)
          /\ kex' = IF outcome = "NEW" THEN [kex EXCEPT ![knext] = "open"] ELSE kex
          /\ knext' = IF outcome = "NEW" THEN knext + 1 ELSE knext
          /\ kfail' = IF outcome = "NEW" THEN -1 ELSE know
          /\ klog' = [NoKeyLog EXCEPT !.op = "placed", !.mode_before = ks.mode,
                                      !.order_mode = OrderMode(ks), !.result = outcome]
    /\ kpc' = [kpc EXCEPT !.side = "idle", !.tif = "None"]
    /\ UNCHANGED <<kcfg, know>>
    /\ KeyOthersUntouched

\* One iteration of _timeout_check_loop for the key: check_timeout up to its
\* suspension at cancel_order (or to the AttributeError of line 942)
KeyCheckTimeout(limited) ==
    /\ kpc.to = "idle"
    /\ LET s1 == CheckTimeoutFlush(ks, know)
           s2 == TimeoutCounted(s1)
           s3 == TimeoutRotatedWith(s2, kcfg)
       IN /\ TimedOut(s1, know)
          /\ limited => (~RaisesAttributeError(s1) /\ ~s1.current_order_is_risk)
          /\ IF RaisesAttributeError(s1)
             THEN /\ ks' = s2
                  /\ UNCHANGED kpc
             ELSE IF limited
             THEN /\ ks' = AfterCancel(s3, know)
                  /\ UNCHANGED kpc
             ELSE /\ ks' = s3
                  /\ kpc' = [kpc EXCEPT !.to = "await_cancel", !.to_ms = know,
                                        !.to_oid = s2.current_order_id]
          /\ klog' = [NoKeyLog EXCEPT
                        !.op = "timeout", !.mode_before = ks.mode,
                        !.order_mode = OrderMode(s1),
                        !.had_fill = s1.current_order_filled_qty > 0,
                        !.count = IF OrderMode(s1) = "AGGRESSIVE_LIMIT"
                                  THEN s2.aggr_timeout_count ELSE s2.maker_timeout_count,
                        !.override = s1.maker_timeouts_to_escalate_override,
                        !.result = IF RaisesAttributeError(s1) THEN "RAISED" ELSE "none"]
    /\ UNCHANGED <<kcfg, know, kex, knext, kfail>>
    /\ KeyOthersUntouched

\* The cancel REST call returns to check_timeout
KeyCancelReturn(success) ==
    /\ kpc.to = "await_cancel"
    /\ success => kex[kpc.to_oid] \in {"open", "partial"}
    /\ kex' = IF success THEN [kex EXCEPT ![kpc.to_oid] = "canceling"] ELSE kex
    /\ ks' = AfterCancel(ks, kpc.to_ms)
    /\ kpc' = [kpc EXCEPT !.to = "idle", !.to_ms = 0, !.to_oid = NoId]
    /\ klog' = [KeyLogIdle(ks) EXCEPT !.op = "cancel_return"]
    /\ UNCHANGED <<kcfg, know, knext, kfail>>
    /\ KeyOthersUntouched

\* The exchange trades, cancels or expires an order of the key (or reports the
\* cancel it has carried out) and the ORDER_TRADE_UPDATE is handled:
\* engine.on_order_update
KeyOrderUpdate(id, status) ==
    /\ kex[id] \in {"open", "partial", "canceling"}
    /\ status \in {"PARTIALLY_FILLED", "FILLED", "CANCELED", "EXPIRED"}
    /\ status = "PARTIALLY_FILLED" => kex[id] = "open"
    /\ kex[id] = "canceling" => status = "CANCELED"
    /\ LET update == [order_id |-> id, status |-> status,
                      filled_qty |-> IF status \in {"FILLED", "PARTIALLY_FILLED"}
                                        \/ kex[id] = "partial" THEN 1 ELSE 0]
           s1 == Flush(ks, know)
       IN /\ ks' = OnOrderUpdateStateWith(s1, update, know, kcfg)
          /\ klog' = [NoKeyLog EXCEPT
                        !.op = IF s1.current_order_id = id THEN "update" ELSE "stale_update",
                        !.mode_before = ks.mode,
                        !.order_mode = OrderMode(s1),
                        !.result = status]
    /\ kex' = [kex EXCEPT ![id] = IF status = "PARTIALLY_FILLED" THEN "partial" ELSE "closed"]
    /\ UNCHANGED <<kcfg, know, kpc, knext, kfail>>
    /\ KeyOthersUntouched

NextKey ==
    \/ KeyTick
    \/ \E panic, signal, risk_flag, has_qty, limited \in BOOLEAN :
            KeyEvaluate(panic, signal, risk_flag, has_qty, limited)
    \/ \E outcome \in {"NEW", "REJECTED", "POST_ONLY"} : KeyPlaceReturn(outcome)
    \/ \E limited \in BOOLEAN : KeyCheckTimeout(limited)
    \/ \E success \in BOOLEAN : KeyCancelReturn(success)
    \/ \E id \in KeyOrderIds, status \in {"PARTIALLY_FILLED", "FILLED", "CANCELED", "EXPIRED"} :
            KeyOrderUpdate(id, status)

\* ------------------------------- Part VI: sync_symbol called twice in a row

\* external stops of the side that may be open at once
MaxExternalStops == 2
ExternalIds == 1..MaxExternalStops
\* stop prices of external stops
ExternalStopPrices == {2, 4}

\* min_dist_ratio of the validity rule for external stops, as a fraction
MinDistNum == 1
MinDistDen == 10000

\* An external stop is valid: LONG strictly above liq * (1 + min_dist_ratio),
\* SHORT strictly below liq * (1 - min_dist_ratio).  ProtectiveStopManager has no
\* such check; the rule is the specification's.
ExternalStopValid(position_side, stop_price, liquidation_price) ==
    IF position_side = "LONG"
    THEN stop_price * MinDistDen > liquidation_price * (MinDistDen + MinDistNum)
    ELSE stop_price * MinDistDen < liquidation_price * (MinDistDen - MinDistNum)

NoInputs == [position |-> NoPosition, has_external_stop_latch |-> FALSE]

NoPrevCall == [ended |-> FALSE, failed |-> FALSE, places |-> 0]

NoCallLog ==
    [cancels |-> 0, places |-> 0, failed |-> FALSE, ended |-> FALSE,
     repeat |-> FALSE, prev_failed |-> FALSE, prev_places |-> 0,
     externals |-> {}]

InitResync ==
    /\ inputs = NoInputs
    /\ own_orders = [i \in StopIds |-> 0]
    /\ external_stop_orders = [k \in ExternalIds |-> 0]
    /\ next_algo_id = 1
    /\ call = NoSync
    /\ callLog = NoCallLog
    /\ prevCall = NoPrevCall

\* a step of Part VI: the other parts stay as they are
ResyncOthersUntouched ==
    /\ ExecUntouched
    /\ UNCHANGED <<stopVars, calVars, shutdownVars, keyVars, loopVars, taskVars,
                   quoteVars, limiterVars>>

\* Between two calls the position of the side changes (Application hands the
\* new positions to the next sync_symbol)
PositionChanges(amt, liq) ==
    /\ call.pc = "none"
    /\ LET p == IF amt = 0 THEN NoPosition ELSE [amt |-> amt, liq |-> liq]
       IN /\ p # inputs.position
          /\ inputs' = [inputs EXCEPT !.position = p]
    /\ prevCall' = NoPrevCall
    /\ callLog' = NoCallLog
    /\ UNCHANGED <<own_orders, external_stop_orders, next_algo_id, call>>
    /\ ResyncOthersUntouched

\* Between two calls the external-takeover latch of the side is set or released
LatchChanges ==
    /\ call.pc = "none"
    /\ inputs' = [inputs EXCEPT !.has_external_stop_latch = ~@]
    /\ prevCall' = NoPrevCall
    /\ callLog' = NoCallLog
    /\ UNCHANGED <<own_orders, external_stop_orders, next_algo_id, call>>
    /\ ResyncOthersUntouched

\* Between two calls another client places a stop on the side
ExternalStopAppears(k, stop_price) ==
    /\ call.pc = "none"
    /\ external_stop_orders[k] = 0
    /\ external_stop_orders' = [external_stop_orders EXCEPT ![k] = stop_price]
    /\ prevCall' = NoPrevCall
    /\ callLog' = NoCallLog
    /\ UNCHANGED <<inputs, own_orders, next_algo_id, call>>
    /\ ResyncOthersUntouched

\* Between two calls an external stop is cancelled by its owner
ExternalStopLeaves(k) ==
    /\ call.pc = "none"
    /\ external_stop_orders[k] # 0
    /\ external_stop_orders' = [external_stop_orders EXCEPT ![k] = 0]
    /\ prevCall' = NoPrevCall
    /\ callLog' = NoCallLog
    /\ UNCHANGED <<inputs, own_orders, next_algo_id, call>>
    /\ ResyncOthersUntouched

\* spy: one more REST request issued by the call
CallRequested(log, pc) ==
    IF pc \in CancelPcs THEN [log EXCEPT !.cancels = @ + 1]
    ELSE IF pc = "place" THEN [log EXCEPT !.places = @ + 1]
    ELSE log

\* _sync_side goes on to its next REST call, or sync_symbol returns
CallGoesOn(s, pc, log) ==
    IF pc = "done"
    THEN /\ call' = NoSync
         /\ callLog' = [log EXCEPT !.ended = TRUE]
         /\ prevCall' = [ended |-> TRUE, failed |-> log.failed, places |-> log.places]
    ELSE /\ call' = [s EXCEPT !.pc = pc]
         /\ callLog' = CallRequested(log, pc)
         /\ UNCHANGED prevCall

\* sync_symbol, lines 371-577: the open orders are fetched and classified, and
\* _sync_side runs to its first REST call.  The stop price of the kept order is
\* normalised with round_to_tick (line 747).
SyncSymbolFetched(ok) ==
    /\ call.pc = "none"
    /\ LET existing == ExistingOrders(own_orders)
           keep == IF existing = <<>> THEN 0 ELSE Head(existing)
           externals == {k \in ExternalIds : external_stop_orders[k] # 0}
           s == [NoSync EXCEPT !.dups = IF existing = <<>> THEN <<>> ELSE Tail(existing),
                               !.keep_order = keep,
                               !.keep_price = IF keep = 0 THEN 0
                                              ELSE RoundToTick(own_orders[keep], 1),
                               !.has_external_stop = externals # {},
                               !.has_external_stop_latch = inputs.has_external_stop_latch,
                               !.position = inputs.position]
           log == [NoCallLog EXCEPT !.repeat = prevCall.ended,
                                    !.prev_failed = prevCall.failed,
                                    !.prev_places = prevCall.places,
                                    !.externals = externals]
       IN IF ok
          THEN CallGoesOn(s,
                          IF s.dups # <<>> THEN "cancel_dup"
                          ELSE Decide(s, psSide, protective_stop_enabled),
                          log)
          ELSE CallGoesOn(s, "done", [log EXCEPT !.failed = TRUE])
    /\ UNCHANGED <<inputs, own_orders, external_stop_orders, next_algo_id>>
    /\ ResyncOthersUntouched

\* exchange.cancel_order returns to _sync_side (an unsuccessful OrderResult is
\* not an exception: _sync_side goes on as after a cancel)
SyncCancelReturns(success) ==
    /\ call.pc \in CancelPcs
    /\ LET target == IF call.pc = "cancel_dup" THEN Head(call.dups) ELSE call.keep_order
           s == IF call.pc = "cancel_dup" THEN [call EXCEPT !.dups = Tail(@)] ELSE call
       IN /\ own_orders' = IF success THEN [own_orders EXCEPT ![target] = 0] ELSE own_orders
          /\ CallGoesOn(s,
                        CASE call.pc = "cancel_dup" ->
                                IF s.dups # <<>> THEN "cancel_dup"
                                ELSE Decide(s, psSide, protective_stop_enabled)
                          [] call.pc = "cancel_existing" -> "place"
                          [] OTHER -> "done",
                        [callLog EXCEPT !.failed = @ \/ ~success])
    /\ UNCHANGED <<inputs, external_stop_orders, next_algo_id>>
    /\ ResyncOthersUntouched

\* exchange.place_order returns to _sync_side
SyncPlaceReturns(success) ==
    /\ call.pc = "place"
    /\ success => next_algo_id \in StopIds
    /\ own_orders' = IF success
                     THEN [own_orders EXCEPT ![next_algo_id] =
                                ComputeStopPrice(psSide, call.position.liq)]
                     ELSE own_orders
    /\ next_algo_id' = IF success THEN next_algo_id + 1 ELSE next_algo_id
    /\ CallGoesOn(call, "done", [callLog EXCEPT !.failed = @ \/ ~success])
    /\ UNCHANGED <<inputs, external_stop_orders>>
    /\ ResyncOthersUntouched

NextResync ==
    \/ \E amt \in {0, 1}, liq \in LiqPrices : PositionChanges(amt, liq)
    \/ LatchChanges
    \/ \E k \in ExternalIds, stop_price \in ExternalStopPrices : ExternalStopAppears(k, stop_price)
    \/ \E k \in ExternalIds : ExternalStopLeaves(k)
    \/ \E ok \in BOOLEAN : SyncSymbolFetched(ok)
    \/ \E success \in BOOLEAN : SyncCancelReturns(success)
    \/ \E success \in BOOLEAN : SyncPlaceReturns(success)

\* ------------------------ Part VII: the timeout loop and the keys it serves

\* the (symbol, side) keys in the order _check_all_timeouts visits them: for
\* each symbol, LONG then SHORT
LoopKeys == <<"S1:LONG", "S1:SHORT", "S2:LONG">>
KeySet == {LoopKeys[i] : i \in 1..Len(LoopKeys)}

InitLoop ==
    /\ order_of = [k \in KeySet |-> "none"]
    /\ side_task = [k \in KeySet |-> "idle"]
    /\ timeout_task = [pc |-> "sleep", i |-> 1]

\* a step of Part VII: the other parts stay as they are
LoopOthersUntouched ==
    /\ ExecUntouched
    /\ UNCHANGED <<stopVars, calVars, shutdownVars, keyVars, resyncVars, taskVars,
                   quoteVars, limiterVars>>

\* _side_loop of key k: a signal is evaluated and the placement REST call is
\* sent.  The task of k waits for nothing but its own call.
SideLoopPlaces(k) ==
    /\ side_task[k] = "idle"
    /\ order_of[k] = "none"
    /\ side_task' = [side_task EXCEPT ![k] = "place_sent"]
    /\ UNCHANGED <<order_of, timeout_task>>
    /\ LoopOthersUntouched

\* the placement REST call of key k returns
SidePlaceReturns(k, success) ==
    /\ side_task[k] = "place_sent"
    /\ side_task' = [side_task EXCEPT ![k] = "idle"]
    /\ order_of' = [order_of EXCEPT ![k] = IF success THEN "waiting" ELSE "none"]
    /\ UNCHANGED timeout_task
    /\ LoopOthersUntouched

\* the TTL of the resting order of key k elapses
TtlElapses(k) ==
    /\ order_of[k] = "waiting"
    /\ order_of' = [order_of EXCEPT ![k] = "due"]
    /\ UNCHANGED <<side_task, timeout_task>>
    /\ LoopOthersUntouched

\* the order of key k is filled and its update handled
OrderFills(k) ==
    /\ order_of[k] \in {"waiting", "due"}
    /\ order_of' = [order_of EXCEPT ![k] = "none"]
    /\ UNCHANGED <<side_task, timeout_task>>
    /\ LoopOthersUntouched

\* _timeout_check_loop: the sleep ends and _check_all_timeouts begins
TimeoutLoopWakes ==
    /\ timeout_task.pc = "sleep"
    /\ timeout_task' = [pc |-> "check", i |-> 1]
    /\ UNCHANGED <<order_of, side_task>>
    /\ LoopOthersUntouched

\* the loop position after the key at index i
AfterKey(i) == IF i < Len(LoopKeys) THEN [pc |-> "check", i |-> i + 1]
               ELSE [pc |-> "sleep", i |-> 1]

\* _check_all_timeouts: `await engine.check_timeout(...)` for the next key.  A
\* key whose order is past its TTL has its cancel sent, and the loop task is
\* suspended until that REST call returns.
CheckNextKey ==
    /\ timeout_task.pc = "check"
    /\ timeout_task' = IF order_of[LoopKeys[timeout_task.i]] = "due"
                       THEN [timeout_task EXCEPT !.pc = "await_cancel"]
                       ELSE AfterKey(timeout_task.i)
    /\ UNCHANGED <<order_of, side_task>>
    /\ LoopOthersUntouched

\* the cancel REST call returns to check_timeout; the loop goes on to the next
\* key
LoopCancelReturns ==
    /\ timeout_task.pc = "await_cancel"
    /\ order_of' = [order_of EXCEPT ![LoopKeys[timeout_task.i]] = "none"]
    /\ timeout_task' = AfterKey(timeout_task.i)
    /\ UNCHANGED side_task
    /\ LoopOthersUntouched

NextLoop ==
    \/ \E k \in KeySet : SideLoopPlaces(k)
    \/ \E k \in KeySet, success \in BOOLEAN : SidePlaceReturns(k, success)
    \/ \E k \in KeySet : TtlElapses(k)
    \/ \E k \in KeySet : OrderFills(k)
    \/ TimeoutLoopWakes
    \/ CheckNextKey
    \/ LoopCancelReturns

\* --------------------------------- Part VIII: the tasks of the orchestrator

TaskNames ==
    {"market_ws.connect", "user_data_ws.connect", "side_loop", "timeout_check_loop",
     "calibration", "handle_order_update"}

\* the tasks created with _on_background_task_done as done callback (main.py
\* 955-958, 1321-1329, 1359-1363); _timeout_check_loop (1340) and the
\* per-update handler (993) are created without one
HasDoneCallback(name) ==
    name \in {"market_ws.connect", "user_data_ws.connect", "side_loop", "calibration"}

\* the tasks whose body is a loop with `except Exception` around each iteration
\* (main.py 1413-1423, 1653-1663)
CatchesInLoop(name) == name \in {"side_loop", "timeout_check_loop"}

\* the tasks that end by themselves
OneShot(name) == name \in {"calibration", "handle_order_update"}

InitTasks ==
    /\ bg = [n \in TaskNames |-> "none"]
    /\ done_callbacks = {}
    /\ error_logged = {}
    /\ shutdown_event = FALSE

\* a step of Part VIII: the other parts stay as they are
TasksOthersUntouched ==
    /\ ExecUntouched
    /\ UNCHANGED <<stopVars, calVars, shutdownVars, keyVars, resyncVars, loopVars,
                   quoteVars, limiterVars>>

\* asyncio.create_task in run(), _main_loop, _schedule_calibration and
\* _on_order_update
CreateTask(name) ==
    /\ ~shutdown_event
    /\ bg[name] \in {"none"} \cup (IF OneShot(name) THEN {"returned"} ELSE {})
    /\ name \notin done_callbacks
    /\ name \in {"side_loop", "timeout_check_loop"} =>
            bg["user_data_ws.connect"] # "none" /\ bg["market_ws.connect"] # "none"
    /\ name \in {"calibration", "handle_order_update"} => bg["user_data_ws.connect"] = "running"
    /\ bg' = [bg EXCEPT ![name] = "running"]
    /\ UNCHANGED <<done_callbacks, error_logged, shutdown_event>>
    /\ TasksOthersUntouched

\* An exception is raised inside the task.  A loop task logs it in its own
\* `except Exception` and keeps running; any other task ends with it, and the
\* event loop schedules the task's done callbacks.
TaskRaises(name) ==
    /\ bg[name] = "running"
    /\ IF CatchesInLoop(name)
       THEN /\ error_logged' = error_logged \cup {name}
            /\ UNCHANGED <<bg, done_callbacks>>
       ELSE /\ bg' = [bg EXCEPT ![name] = "raised"]
            /\ done_callbacks' = IF HasDoneCallback(name) THEN done_callbacks \cup {name}
                                 ELSE done_callbacks
            /\ UNCHANGED error_logged
    /\ UNCHANGED shutdown_event
    /\ TasksOthersUntouched

\* a one-shot task ends normally
TaskReturns(name) ==
    /\ bg[name] = "running"
    /\ OneShot(name)
    /\ bg' = [bg EXCEPT ![name] = "returned"]
    /\ done_callbacks' = IF HasDoneCallback(name) THEN done_callbacks \cup {name}
                         ELSE done_callbacks
    /\ UNCHANGED <<error_logged, shutdown_event>>
    /\ TasksOthersUntouched

\* shutdown() cancels a task that is still running
TaskIsCancelled(name) ==
    /\ shutdown_event
    /\ bg[name] = "running"
    /\ bg' = [bg EXCEPT ![name] = "cancelled"]
    /\ done_callbacks' = IF HasDoneCallback(name) THEN done_callbacks \cup {name}
                         ELSE done_callbacks
    /\ UNCHANGED <<error_logged, shutdown_event>>
    /\ TasksOthersUntouched

\* Application._on_background_task_done
OnBackgroundTaskDone(name) ==
    /\ name \in done_callbacks
    /\ done_callbacks' = done_callbacks \ {name}
    /\ IF bg[name] = "raised"
       THEN /\ error_logged' = error_logged \cup {name}
            /\ shutdown_event' = TRUE
       ELSE UNCHANGED <<error_logged, shutdown_event>>
    /\ UNCHANGED bg
    /\ TasksOthersUntouched

\* Application.request_shutdown from the signal handler
RequestShutdown ==
    /\ ~shutdown_event
    /\ shutdown_event' = TRUE
    /\ UNCHANGED <<bg, done_callbacks, error_logged>>
    /\ TasksOthersUntouched

NextTasks ==
    \/ \E name \in TaskNames : CreateTask(name)
    \/ \E name \in TaskNames : TaskRaises(name)
    \/ \E name \in TaskNames : TaskReturns(name)
    \/ \E name \in TaskNames : TaskIsCancelled(name)
    \/ \E name \in TaskNames : OnBackgroundTaskDone(name)
    \/ RequestShutdown

NextExec ==
    \/ Tick
    \/ \E panic, signal, risk_flag, has_qty, limited \in BOOLEAN :
            EvaluateSymbolSide(panic, signal, risk_flag, has_qty, limited)
    \/ \E outcome \in {"NEW", "PARTIALLY_FILLED", "FILLED", "REJECTED"} : ExAccept(outcome)
    \/ PlaceReturn
    \/ \E limited \in BOOLEAN : CheckTimeout(limited)
    \/ \E success \in BOOLEAN : CancelReturn(success)
    \/ \E id \in OrderIds, status \in {"FILLED", "PARTIALLY_FILLED", "CANCELED", "EXPIRED"} :
            ExOrderEvent(id, status)
    \/ HandleOrderUpdate

NextStop ==
    \/ StopTick
    \/ \E amt \in {0, 1}, liq \in LiqPrices : RefreshPosition(amt, liq)
    \/ \E amt \in {0, 1}, lands \in BOOLEAN : PositionUpdate(amt, lands)
    \/ ExternalStopPlaced
    \/ ExternalStopGone
    \/ \E id \in StopIds : OwnStopVanishes(id)
    \/ \E lands \in BOOLEAN : OnAlgoOrderUpdate(lands)
    \/ \E lands \in BOOLEAN : ScheduleSync(lands)
    \/ \E lands \in BOOLEAN : ScheduleVerify(lands)
    \/ SyncStart
    \/ \E ok \in BOOLEAN : SyncFetched(ok)
    \/ \E success \in BOOLEAN : RestCancelReturn(success)
    \/ \E success \in BOOLEAN : RestPlaceReturn(success)
    \/ OnProtectiveStopTaskDone
    \/ \E lands \in BOOLEAN : Shutdown(lands)

\* ------------------------- Part IX: quantities and maker prices of intents
\* Quantities and prices are integers: multiples of the smallest quantity and
\* price increments the exchange publishes.

\* largest |position_amt|, min_qty, step_size, and the last trade prices
MaxPosition == 5
MaxMinQty == 2
MaxStepSize == 2
\* largest best_ask, tick_size, maker_safety_ticks and maker_n_ticks
MaxPrice == 6
MaxTickSize == 2
MaxSafetyTicks == 2

\* engines: base_lot_mult, max_mult, max_order_notional (0: no notional cap)
QtyConfigs ==
    [base_lot_mult : {1, 2}, max_mult : {1, 3}, max_order_notional : {0, 3}]

\* panic tiers' slice_ratio (0 < ratio <= 1), as fractions
SliceRatios == {[num |-> 1, den |-> 4], [num |-> 1, den |-> 2], [num |-> 1, den |-> 1]}

\* engines: maker_price_mode, maker_n_ticks, maker_safety_ticks
PriceConfigs ==
    [maker_price_mode : {"at_touch", "inside_spread_1tick", "custom_ticks"},
     maker_n_ticks : 1..2,
     maker_safety_ticks : 1..MaxSafetyTicks]

Abs(x) == IF x < 0 THEN -x ELSE x
Min(a, b) == IF a <= b THEN a ELSE b
Max(a, b) == IF a >= b THEN a ELSE b

\* helpers.round_to_step and helpers.round_to_tick (the same floor)
RoundToStep(value, step_size) ==
    IF step_size <= 0 THEN value ELSE (value \div step_size) * step_size

\* ExecutionEngine.is_position_done
IsPositionDone(position_amt, min_qty, step_size) ==
    LET rounded == RoundToStep(Abs(position_amt), step_size)
    IN rounded = 0 \/ rounded < min_qty

\* a compute_qty without the `min(base_qty, abs_position)` cap
ComputeQtyUncapped(cfg, position_amt, min_qty, step_size, last_trade_price, roi_mult, accel_mult) ==
    LET abs_position == Abs(position_amt)
        final_mult == Min(Max(cfg.base_lot_mult, 1) * Max(roi_mult, 1) * Max(accel_mult, 1),
                          Max(cfg.max_mult, 1))
        base_qty == min_qty * final_mult
        qty2 == IF last_trade_price > 0 /\ cfg.max_order_notional > 0
                THEN Min(base_qty, cfg.max_order_notional \div last_trade_price)
                ELSE base_qty
        qty == RoundToStep(qty2, step_size)
    IN IF abs_position < min_qty THEN 0
       ELSE IF qty < min_qty THEN 0 ELSE qty

\* ExecutionEngine.compute_qty.  The floor of min(qty, max_order_notional /
\* last_trade_price) to a step is the floor of min(qty, the integer part of
\* the quotient).
ComputeQty(cfg, position_amt, min_qty, step_size, last_trade_price, roi_mult, accel_mult) ==
    LET abs_position == Abs(position_amt)
        final_mult == Min(Max(cfg.base_lot_mult, 1) * Max(roi_mult, 1) * Max(accel_mult, 1),
                          Max(cfg.max_mult, 1))
        base_qty == min_qty * final_mult
        qty1 == Min(base_qty, abs_position)
        qty2 == IF last_trade_price > 0 /\ cfg.max_order_notional > 0
                THEN Min(qty1, cfg.max_order_notional \div last_trade_price)
                ELSE qty1
        qty == RoundToStep(qty2, step_size)
    IN IF abs_position < min_qty THEN 0
       ELSE IF qty < min_qty THEN 0 ELSE qty

\* ExecutionEngine.compute_panic_qty
ComputePanicQty(position_amt, min_qty, step_size, slice_ratio) ==
    LET abs_position == Abs(position_amt)
        \* round_to_step(abs_position * slice_ratio, step_size), step_size > 0
        raw_floor == ((abs_position * slice_ratio.num) \div (slice_ratio.den * step_size))
                     * step_size
        qty1 == IF raw_floor < min_qty THEN min_qty ELSE raw_floor
        qty2 == IF qty1 > abs_position THEN RoundToStep(abs_position, step_size) ELSE qty1
    IN IF abs_position < min_qty THEN 0
       ELSE IF slice_ratio.num <= 0 THEN 0
       ELSE IF qty2 < min_qty THEN 0 ELSE qty2

\* a build_maker_price without the post-only clamp of lines 1049-1062
BuildMakerPriceUnclamped(cfg, position_side, best_bid, best_ask, tick_size) ==
    LET price0 ==
            IF position_side = "LONG"
            THEN CASE cfg.maker_price_mode = "at_touch" -> best_ask
                   [] cfg.maker_price_mode = "inside_spread_1tick" -> best_ask - tick_size
                   [] cfg.maker_price_mode = "custom_ticks" -> best_ask - tick_size * cfg.maker_n_ticks
                   [] OTHER -> best_ask - tick_size
            ELSE CASE cfg.maker_price_mode = "at_touch" -> best_bid
                   [] cfg.maker_price_mode = "inside_spread_1tick" -> best_bid + tick_size
                   [] cfg.maker_price_mode = "custom_ticks" -> best_bid + tick_size * cfg.maker_n_ticks
                   [] OTHER -> best_bid + tick_size
    IN RoundToStep(price0, tick_size)

\* ExecutionEngine.build_maker_price
BuildMakerPrice(cfg, position_side, best_bid, best_ask, tick_size) ==
    LET price == BuildMakerPriceUnclamped(cfg, position_side, best_bid, best_ask, tick_size)
    IN IF tick_size > 0
       THEN IF position_side = "LONG"
            THEN LET min_maker_price == RoundToStep(best_bid, tick_size)
                                        + tick_size * cfg.maker_safety_ticks
                 IN IF price < min_maker_price THEN min_maker_price ELSE price
            ELSE LET max0 == RoundToStep(best_ask, tick_size)
                             - tick_size * cfg.maker_safety_ticks
                     max_maker_price == IF max0 <= 0 THEN tick_size ELSE max0
                 IN IF price > max_maker_price THEN max_maker_price ELSE price
       ELSE price

\* no call yet (each behaviour of Part IX is one call of a fresh engine)
NoQuote ==
    [op |-> "none", position_side |-> "LONG", position_amt |-> 0, min_qty |-> 0,
     step_size |-> 0, best_bid |-> 0, best_ask |-> 0, tick_size |-> 0,
     safety_ticks |-> 0, args |-> <<>>, returned |-> FALSE, qty |-> 0, price |-> 0]

InitQuote == quote = NoQuote

\* a step of Part IX: the other parts stay as they are
QuoteOthersUntouched ==
    /\ ExecUntouched
    /\ UNCHANGED <<stopVars, calVars, shutdownVars, keyVars, resyncVars, loopVars, taskVars,
                   limiterVars>>

\* on_signal for an IDLE key: the intent's quantity (lines 281-300)
OnSignalCall(cfg, position_amt, min_qty, step_size, last_trade_price, roi_mult, accel_mult) ==
    /\ quote.op = "none"
    /\ LET qty == ComputeQty(cfg, position_amt, min_qty, step_size, last_trade_price,
                             roi_mult, accel_mult)
           returned == ~IsPositionDone(position_amt, min_qty, step_size) /\ ~(qty <= 0)
       IN quote' = [NoQuote EXCEPT !.op = "on_signal", !.position_amt = position_amt,
                                 !.min_qty = min_qty, !.step_size = step_size,
                                 !.args = <<cfg, last_trade_price, roi_mult, accel_mult>>,
                                 !.returned = returned,
                                 !.qty = IF returned THEN qty ELSE 0]
    /\ QuoteOthersUntouched

\* on_panic_close for an IDLE key: the intent's quantity (lines 413-424)
OnPanicCloseCall(position_amt, min_qty, step_size, slice_ratio) ==
    /\ quote.op = "none"
    /\ LET qty == ComputePanicQty(position_amt, min_qty, step_size, slice_ratio)
           returned == ~IsPositionDone(position_amt, min_qty, step_size) /\ ~(qty <= 0)
       IN quote' = [NoQuote EXCEPT !.op = "on_panic_close", !.position_amt = position_amt,
                                 !.min_qty = min_qty, !.step_size = step_size,
                                 !.args = <<slice_ratio>>,
                                 !.returned = returned,
                                 !.qty = IF returned THEN qty ELSE 0]
    /\ QuoteOthersUntouched

\* build_maker_price for a book with 0 < best_bid <= best_ask
BuildMakerPriceCall(cfg, position_side, best_bid, best_ask, tick_size) ==
    /\ quote.op = "none"
    /\ best_bid <= best_ask
    /\ quote' = [NoQuote EXCEPT !.op = "build_maker_price", !.position_side = position_side,
                              !.best_bid = best_bid, !.best_ask = best_ask,
                              !.tick_size = tick_size,
                              !.safety_ticks = cfg.maker_safety_ticks,
                              !.args = <<cfg>>,
                              !.price = BuildMakerPrice(cfg, position_side, best_bid,
                                                        best_ask, tick_size)]
    /\ QuoteOthersUntouched

NextQuote ==
    \/ \E cfg \in QtyConfigs, position_amt \in (-MaxPosition)..MaxPosition,
          min_qty \in 1..MaxMinQty, step_size \in 1..MaxStepSize,
          last_trade_price \in 0..2, roi_mult \in 1..2, accel_mult \in 1..2 :
            OnSignalCall(cfg, position_amt, min_qty, step_size, last_trade_price,
                         roi_mult, accel_mult)
    \/ \E position_amt \in (-MaxPosition)..MaxPosition, min_qty \in 1..MaxMinQty,
          step_size \in 1..MaxStepSize, slice_ratio \in SliceRatios :
            OnPanicCloseCall(position_amt, min_qty, step_size, slice_ratio)
    \/ \E cfg \in PriceConfigs, position_side \in {"LONG", "SHORT"},
          best_bid \in 1..MaxPrice, best_ask \in 1..MaxPrice, tick_size \in 1..MaxTickSize :
            BuildMakerPriceCall(cfg, position_side, best_bid, best_ask, tick_size)

\* ------------------------------------------- Part X: the account rate limits

\* the clock of the limiters stops here
MaxLimiterTime == 4
\* risk orders (which do not ask the limiter) per kind of call
MaxBypassed == 1

\* SlidingWindowRateLimiter's window_ms, in the clock's unit
window_ms == 2

\* a RiskManager whose limiters are built with each other's limits
LimiterMaxEventsSwapped(kind) ==
    IF kind = "order" THEN max_cancels_per_sec ELSE max_orders_per_sec

\* RiskManager.__init__: max_events of _order_limiter and _cancel_limiter
LimiterMaxEvents(kind) ==
    IF kind = "order" THEN max_orders_per_sec ELSE max_cancels_per_sec

LimiterKinds == {"order", "cancel"}

\* SlidingWindowRateLimiter.try_acquire: the queue after the stale timestamps
\* are trimmed from its front
Trimmed(queue, current_ms) ==
    SelectSeq(queue, LAMBDA ts : ts > current_ms - window_ms)

\* SlidingWindowRateLimiter.try_acquire: whether the call is accepted
TryAcquireAccepts(queue, max_events, current_ms) ==
    ~(Len(Trimmed(queue, current_ms)) >= max_events)

\* SlidingWindowRateLimiter.try_acquire: the queue after the call
TryAcquireQueue(queue, max_events, current_ms) ==
    IF TryAcquireAccepts(queue, max_events, current_ms)
    THEN Append(Trimmed(queue, current_ms), current_ms)
    ELSE Trimmed(queue, current_ms)

InitLimiter ==
    /\ limiter = [now_ms |-> 0, queue |-> [kind \in LimiterKinds |-> <<>>]]
    /\ acquired = [accepted |-> [kind \in LimiterKinds |-> <<>>],
                   bypassed |-> [kind \in LimiterKinds |-> 0]]

\* a step of Part X: the other parts stay as they are
LimiterOthersUntouched ==
    /\ ExecUntouched
    /\ UNCHANGED <<stopVars, calVars, shutdownVars, keyVars, resyncVars, loopVars, taskVars,
                   quoteVars>>

\* current_time_ms() advances
LimiterTick ==
    /\ limiter.now_ms < MaxLimiterTime
    /\ limiter' = [limiter EXCEPT !.now_ms = @ + 1]
    /\ UNCHANGED acquired
    /\ LimiterOthersUntouched

\* Application._place_order (kind "order", can_place_order) and
\* Application._cancel_order (kind "cancel", can_cancel_order) up to the REST
\* call: a risk order does not ask the limiter
LimitedCall(kind, is_risk) ==
    /\ IF is_risk
       THEN /\ acquired.bypassed[kind] < MaxBypassed
            /\ acquired' = [acquired EXCEPT !.bypassed[kind] = @ + 1]
            /\ UNCHANGED limiter
       ELSE LET queue == limiter.queue[kind]
                max_events == LimiterMaxEvents(kind)
            IN /\ limiter' = [limiter EXCEPT !.queue[kind] =
                                    TryAcquireQueue(queue, max_events, limiter.now_ms)]
               /\ acquired' = IF TryAcquireAccepts(queue, max_events, limiter.now_ms)
                              THEN [acquired EXCEPT !.accepted[kind] = Append(@, limiter.now_ms)]
                              ELSE acquired
    /\ LimiterOthersUntouched

NextLimiter ==
    \/ LimiterTick
    \/ \E kind \in LimiterKinds, is_risk \in BOOLEAN : LimitedCall(kind, is_risk)

\* Parts VI to X before their first step
InitLater == InitResync /\ InitLoop /\ InitTasks /\ InitQuote /\ InitLimiter

\* the key of Part V with the thresholds of the configuration values above
InitKeyStatic ==
    /\ KeyStart
    /\ kcfg = [maker_timeouts_to_escalate |-> maker_timeouts_to_escalate,
               aggr_fills_to_deescalate |-> aggr_fills_to_deescalate,
               aggr_timeouts_to_deescalate |-> aggr_timeouts_to_deescalate,
               tier_maker_timeouts_to_escalate |-> panic_maker_timeouts_to_escalate]

Init == InitExec /\ InitStop /\ InitCal /\ InitShutdown /\ InitKeyStatic /\ InitLater

\* every threshold configuration of the key of Part V
InitKeyConfigs ==
    InitExec /\ InitStop /\ InitCal /\ InitShutdown /\ InitKey /\ InitLater /\ psSide = "LONG"

\* the stop reconciler stays in one initial state while the executor is followed
InitOneSide == Init /\ psSide = "LONG"

\* the executor of one key
SpecExec == InitOneSide /\ [][NextExec]_vars

\* the stop reconciler and the latch of one side; the executor stays idle
SpecStop == Init /\ [][NextStop]_vars

\* the reconnect calibration beside the side loop of one key
SpecCal == InitOneSide /\ [][NextCal]_vars

\* the order book of one symbol and shutdown()
SpecShutdown == Init /\ [][NextShutdown]_vars

\* the same, with an event loop that keeps running
SpecShutdownLive == Init /\ [][NextShutdown]_vars /\ WF_vars(ShutdownStep)

\* one key with its thresholds as inputs
SpecKey == InitKeyConfigs /\ [][NextKey]_vars

\* sync_symbol called again and again for one side
SpecResync == Init /\ [][NextResync]_vars

\* the timeout loop and the side loops of three keys
SpecLoop == InitOneSide /\ [][NextLoop]_vars

\* the tasks run() and the callbacks create, and their done callbacks
SpecTasks == InitOneSide /\ [][NextTasks]_vars

\* Part IX: the quantities and maker prices of intents
SpecQuote == InitOneSide /\ [][NextQuote]_vars

\* Part X: the account rate limits
SpecLimiter == InitOneSide /\ [][NextLimiter]_vars

\* ------------------------------------------------------- Part I: properties

\* the key's limit orders that are open on the exchange
OpenOrders == {i \in OrderIds : exStatus[i] \in {"open", "partial"}}

\* C1: at every instant at most one limit order of the key is open on the
\* exchange, whatever the outcome (success, failure, rate-limited) of the cancel
\* issued when the TTL expired.
C1_AtMostOneOpenOrder == Cardinality(OpenOrders) <= 1

\* C2: the operations on the key's state are serialised: none of on_signal,
\* on_panic_close, on_order_placed, on_order_update, check_timeout,
\* check_cooldown begins while another task is suspended at its place or cancel
\* await.
C2_Serialised == overlapped = {}

\* C10: an order whose placement result was already FILLED gets exactly one fill
\* event: once on_order_placed has run it is either still pending its WS
\* confirmation (not yet emitted) or emitted exactly once, never twice and never
\* dropped without emission.
C10_ExactlyOneFillEvent ==
    \A id \in placed_filled :
        \/ on_fill_calls[id] = 1
        \/ /\ on_fill_calls[id] = 0
           /\ st.pending_fill_log
           /\ st.last_completed_order_id = id

\* ------------------------------------------------------ Part II: properties

\* the own protective stops open on the exchange
OwnStops == {i \in StopIds : ownStops[i] # 0}

\* C3: a sync that met a recoverable failure (failed cancel, failed placement,
\* failed fetch, task cancelled) on a side with an open position that had an
\* exchange-side stop before, and whose position is still open, does not end with
\* the side stripped of its stop by the sync's own cancel.
C3_StopKeptOnFailure ==
    (syncLog.ended /\ syncLog.failure /\ syncLog.had_pos /\ syncLog.had_stop
        /\ syncLog.removed /\ position.amt # 0)
    => syncLog.stop_after

\* C4: a sync whose cancel of the existing own stop came back unsuccessful
\* issues no placement.
C4_NoPlaceAfterFailedCancel == syncLog.cancel_failed => syncLog.places = 0

\* C5: while the position stays open, an own stop is never placed at a looser
\* price than the own stop placed before it (LONG: not lower, SHORT: not higher).
C5_MonotonicStops ==
    (syncLog.placed_price # 0 /\ syncLog.prev_price # 0)
    => ~Looser(psSide, syncLog.placed_price, syncLog.prev_price)

\* C6: at every instant at most one own protective stop of the side is open on
\* the exchange.
C6_AtMostOneOwnStop == Cardinality(OwnStops) <= 1

\* C7 as claimed: a sync that runs with the side latched issues no cancel and no
\* placement, whatever it finds.
C7_LatchedNoRequests == syncLog.latched => (syncLog.cancels = 0 /\ syncLog.places = 0)

\* C7 amended: a sync that runs with the side latched and reaches the latch check
\* (protection enabled, open position, no external stop in the sweep, at most one
\* own stop) issues no cancel and no placement, also when it could tighten.
C7_LatchedNoRequestsAtLatchCheck ==
    (syncLog.latched /\ protective_stop_enabled /\ syncLog.had_pos /\ ~syncLog.ext
        /\ syncLog.own_count <= 1)
    => (syncLog.cancels = 0 /\ syncLog.places = 0)

C7_Witness ==
    /\ syncLog.ended /\ syncLog.swept
    /\ syncLog.latched /\ syncLog.had_pos /\ ~syncLog.ext
    /\ syncLog.own_count = 1 /\ syncLog.tighter
    /\ syncLog.cancels = 0 /\ syncLog.places = 0

\* C8: a sync whose sweep finds an external closePosition/reduceOnly stop on a
\* side with an open position issues no placement, and when it runs to its end
\* it has issued a cancel for every own stop it found.
C8_ExternalTakeover ==
    (syncLog.ext /\ syncLog.had_pos)
    => /\ syncLog.places = 0
       /\ syncLog.swept => syncLog.cancels = syncLog.own_count

C8_Witness ==
    /\ syncLog.swept /\ syncLog.ext /\ syncLog.had_pos
    /\ syncLog.own_count = 1 /\ syncLog.cancels = 1 /\ syncLog.removed
    /\ syncLog.places = 0 /\ OwnStops = {}

\* C9: a sweep that finds an external stop leaves the latch active with
\* pending_release cleared; a sweep that finds none releases a latch that was in
\* pending-release; a latch is released only by a sweep that found none.
C9_LatchSweep ==
    syncLog.swept =>
        /\ syncLog.present => (syncLog.active /\ ~syncLog.pending_release)
        /\ (~syncLog.present /\ syncLog.was_active /\ syncLog.was_pending) => ~syncLog.active
        /\ (syncLog.was_active /\ ~syncLog.active) => ~syncLog.present

C9_Witness ==
    /\ syncLog.swept /\ ~syncLog.failure /\ ~syncLog.present
    /\ syncLog.was_active /\ syncLog.was_pending /\ ~syncLog.active

C9_WitnessKept ==
    /\ syncLog.swept /\ syncLog.present
    /\ syncLog.was_active /\ syncLog.was_pending
    /\ syncLog.active /\ ~syncLog.pending_release

\* ------------------------------------------- properties of Part I, continued

\* C11: a call of on_signal / on_panic_close returns an intent only when the key
\* was IDLE, and then leaves it in PLACING; called on a key in PLACING, WAITING,
\* CANCELING or COOLDOWN it returns no intent and leaves the state as it was.
C11_OnlyIdleConsumesSignal ==
    signal_call.called =>
        /\ signal_call.returned =>
               (signal_call.before = "IDLE" /\ signal_call.after = "PLACING")
        /\ signal_call.before # "IDLE" =>
               (~signal_call.returned /\ signal_call.after = signal_call.before)

C11_Witness ==
    /\ signal_call.called /\ signal_call.before = "WAITING"
    /\ ~signal_call.returned /\ signal_call.after = "WAITING"
    /\ st.state = "WAITING"

C11_WitnessIdle ==
    /\ signal_call.called /\ signal_call.before = "IDLE"
    /\ signal_call.returned /\ sidePc = "place_sent" /\ st.state = "PLACING"

\* C12: once check_timeout has found the TTL of a WAITING order expired, the key
\* is in COOLDOWN when check_timeout is over; outside a running check_timeout the
\* key is never in CANCELING.
C12_NeverLeftCanceling ==
    toPc = "idle" => st.state # "CANCELING"

\* C13: the local limiters never reject a placement whose intent has
\* is_risk = true, nor the cancel of an order that was placed from such an intent.
C13_RiskNeverLimited ==
    limiter_rejected \cap {"risk_place", "risk_cancel"} = {}

\* ----------------------------------------------------- Part III: properties

\* C14: while calibrating is true no side-loop iteration calls on_signal or
\* on_panic_close or starts a placement: the step a side loop has just made
\* under calibrating = true made no such call.
C14_NoEvaluationWhileCalibrating ==
    calibrating => (~signal_call.called /\ ~signal_call.returned)

C14_Witness ==
    /\ calibrating /\ signal_call.gated
    /\ st.state = "IDLE" /\ sidePc = "idle"

\* C15: after the last reconnect the system comes to rest with calibrating = false
\* and with rules and positions that were requested after that reconnect.  When
\* no calibration task is pending nothing but a further reconnect refreshes the
\* caches, so whenever none is pending (and no REST call of a calibration has
\* failed) the caches hold data requested after the last reconnect so far.
C15_QuiescentCacheIsFresh ==
    (~CalibrationTaskPending /\ ~cal_failed)
    => (~calibrating /\ cache.rules = reconnects /\ cache.positions = reconnects)

\* ------------------------------------------------------ Part IV: properties

\* C16: the shutdown cleanup sends a cancel only for orders whose client order
\* id starts with this run's prefix, and no other order is cancelled: orders of
\* other runs, orders entered by hand and the own protective stop stay open.
C16_CleanupOnlyRunPrefix ==
    \A k \in Kinds :
        (k \in sd_cancels \/ book[k].status = "canceled")
        => (k \in {"limit", "panic"} /\ StartsWith(book[k].cid, ClientOrderIdPrefix))

C16_Witness ==
    /\ sd.stage = ShutdownDone
    /\ book["limit"].status = "canceled"
    /\ book["stop"].status = "open"
    /\ book["other_run"].status = "open"
    /\ book["manual"].status = "open"
    /\ sd_cancels = {"limit"}

\* C17: shutdown() always terminates: once it has begun it returns, whatever
\* task, REST call or connection hangs.
C17_ShutdownTerminates ==
    (sd.stage >= 1) ~> (sd.stage = ShutdownDone)

C17_Witness ==
    sd.stage = ShutdownDone /\ sd.timed

\* C18: every order the program has placed (limit exit order, panic-close order,
\* protective stop) carries a client order id that starts with this run's prefix.
C18_AllOrdersCarryRunPrefix ==
    \A k \in {"limit", "panic", "stop"} :
        book[k].status # "none" => StartsWith(book[k].cid, ClientOrderIdPrefix)

\* ------------------------------------------ properties of Part II, continued

\* C19: when a sync that asked for a placement has ended and nothing else is
\* pending for the side (no task, no WS event), a side that is open with stops
\* enabled, a known liquidation price, no external stop and no latch has exactly
\* one own protective stop resting on the exchange.
C19_OpenSideHasOneStop ==
    (/\ running /\ protective_stop_enabled
     /\ sync.pc = "done" /\ syncLog.ended /\ syncLog.places >= 1
     /\ algoWs = "none"
     /\ position.amt # 0 /\ position.liq > 0
     /\ ~extStop /\ ~syncLog.ext
     /\ ~ExternalTakeoverIsActive(latch) /\ ~syncLog.latched)
    => Cardinality(OwnStops) = 1

\* C20 as claimed: a sync whose sweep finds the side latched and not seen for
\* the verify interval leaves the latch released, whatever pending_release was.
C20_OverdueLatchReleased ==
    (syncLog.swept /\ syncLog.was_overdue) => ~syncLog.active

\* C20 amended: a sweep that finds the side latched and not seen for the verify
\* interval releases the latch exactly when it reports no external stop for the
\* side, whatever pending_release was; when it reports one the latch stays.
C20_OverdueLatchReleasedUnlessPresent ==
    (syncLog.swept /\ syncLog.was_overdue) => (syncLog.active <=> syncLog.present)

C20_Witness ==
    /\ syncLog.swept /\ syncLog.was_overdue
    /\ ~syncLog.was_pending /\ ~syncLog.present /\ ~syncLog.failure
    /\ ~syncLog.active /\ ~latch.active

\* ------------------------------------------------------ Part V: properties

\* C25: when a GTX placement made in MAKER_ONLY mode has come back rejected as
\* post-only, the key has been switched to AGGRESSIVE_LIMIT for the one retry.
C25_PostOnlyRejectEscalates ==
    (klog.op = "placed" /\ klog.result = "POST_ONLY" /\ klog.order_mode = "MAKER_ONLY")
    => ks.mode = "AGGRESSIVE_LIMIT"

\* C26: an unsuccessful placement result leaves the key in COOLDOWN with no
\* current order, and the next intent of the key is returned only when
\* repost_cooldown_ms has elapsed since that result.
C26_FailedPlacementCoolsDown ==
    /\ (klog.op = "placed" /\ klog.result \in {"REJECTED", "POST_ONLY"})
       => (ks.state = "COOLDOWN" /\ ks.current_order_id = NoId)
    /\ (klog.op = "evaluate" /\ klog.returned /\ klog.result # "LIMITED" /\ kfail >= 0)
       => know - kfail >= repost_cooldown_ms

\* the three rotation counters of the key are 0
CountersZero(s) ==
    s.maker_timeout_count = 0 /\ s.aggr_timeout_count = 0 /\ s.aggr_fill_count = 0

\* C27: after every step that has changed the key's mode (escalation,
\* deescalation, external set_mode) the three counters are 0.
C27_CountersResetOnModeChange ==
    ks.mode # klog.mode_before => CountersZero(ks)

C27_Witness ==
    /\ klog.op = "update" /\ klog.result = "FILLED"
    /\ klog.mode_before = "AGGRESSIVE_LIMIT" /\ ks.mode = "MAKER_ONLY"
    /\ kcfg.aggr_fills_to_deescalate = 1
    /\ CountersZero(ks)

\* C28: with maker_timeouts_to_escalate = N > 0 and no override, the processing
\* of a fill-less maker TTL timeout of a key in MAKER_ONLY leaves it in
\* AGGRESSIVE_LIMIT exactly when it is the N-th consecutive one.
C28_EscalatesAtNthTimeout ==
    (/\ klog.op = "timeout" /\ klog.order_mode = "MAKER_ONLY" /\ ~klog.had_fill
     /\ klog.mode_before = "MAKER_ONLY"
     /\ klog.override = {} /\ kcfg.maker_timeouts_to_escalate > 0)
    => (ks.mode = "AGGRESSIVE_LIMIT" <=> klog.count >= kcfg.maker_timeouts_to_escalate)

\* the threshold the priority order selects: the risk override, else the
\* fill-rate feedback override (never set: main.py builds the engine with the
\* feedback disabled), else the configured value
EffectiveMakerThreshold(override, cfg) ==
    IF override # {} THEN CHOOSE x \in override : TRUE
    ELSE cfg.maker_timeouts_to_escalate

\* C29: the processing of a fill-less maker TTL timeout escalates exactly when
\* the count has reached the threshold selected in the order risk override,
\* feedback override, configured value.
C29_ThresholdPriority ==
    (/\ klog.op = "timeout" /\ klog.order_mode = "MAKER_ONLY" /\ ~klog.had_fill
     /\ klog.mode_before = "MAKER_ONLY")
    => (ks.mode = "AGGRESSIVE_LIMIT"
        <=> /\ EffectiveMakerThreshold(klog.override, kcfg) > 0
            /\ klog.count >= EffectiveMakerThreshold(klog.override, kcfg))

\* C30: with a threshold <= 0 the counter-driven transition it governs does not
\* fire: a fill-less maker timeout does not escalate, a fill of an aggressive
\* order does not deescalate, a fill-less aggressive timeout does not deescalate,
\* whatever the counters are.
C30_NonPositiveThresholdDisables ==
    /\ (/\ klog.op = "timeout" /\ klog.order_mode = "MAKER_ONLY" /\ ~klog.had_fill
        /\ EffectiveMakerThreshold(klog.override, kcfg) <= 0)
       => ks.mode = klog.mode_before
    /\ (/\ klog.op = "update" /\ klog.result = "FILLED"
        /\ klog.order_mode = "AGGRESSIVE_LIMIT"
        /\ kcfg.aggr_fills_to_deescalate <= 0)
       => ks.mode = klog.mode_before
    /\ (/\ klog.op = "timeout" /\ klog.order_mode = "AGGRESSIVE_LIMIT" /\ ~klog.had_fill
        /\ kcfg.aggr_timeouts_to_deescalate <= 0)
       => ks.mode = klog.mode_before

C30_Witness ==
    /\ klog.op = "update" /\ klog.result = "FILLED"
    /\ klog.order_mode = "AGGRESSIVE_LIMIT"
    /\ kcfg.aggr_fills_to_deescalate = 0
    /\ ks.aggr_fill_count >= 2
    /\ ks.mode = "AGGRESSIVE_LIMIT"

\* ------------------------------------------------------ Part VI: properties

\* C21: when a sync_symbol call has ended without a REST failure for an open
\* position (no latch) and every external stop it found on the side was invalid,
\* each of those external stops has been cancelled and the side has an own stop.
C21_InvalidExternalStopsCancelled ==
    (/\ callLog.ended /\ ~callLog.failed
     /\ inputs.position.amt # 0 /\ inputs.position.liq > 0
     /\ ~inputs.has_external_stop_latch
     /\ callLog.externals # {}
     /\ \A k \in callLog.externals :
            ~ExternalStopValid(psSide, external_stop_orders[k], inputs.position.liq))
    => /\ \A k \in callLog.externals : external_stop_orders[k] = 0
       /\ \E i \in StopIds : own_orders[i] # 0

\* C22 as stated: a sync_symbol call that follows another one with nothing
\* changed in between issues no cancel and no placement.
C22_SecondRunIssuesNothing ==
    (callLog.repeat /\ callLog.ended) => (callLog.cancels = 0 /\ callLog.places = 0)

\* C22, amended: a sync_symbol call that follows, with nothing changed in
\* between, a call all of whose REST requests succeeded, issues no cancel and no
\* placement.
C22_SecondRunIssuesNothingAfterSuccess ==
    (callLog.repeat /\ ~callLog.prev_failed) => (callLog.cancels = 0 /\ callLog.places = 0)

C22_Witness ==
    /\ callLog.repeat /\ ~callLog.prev_failed /\ callLog.prev_places = 1
    /\ callLog.ended /\ ~callLog.failed
    /\ callLog.cancels = 0 /\ callLog.places = 0
    /\ \E i \in StopIds : own_orders[i] # 0

\* ----------------------------------------------------- Part VII: properties

\* C23: the TTL timeout of a key is never left unprocessed while the timeout
\* loop is suspended in the cancel REST call of another key.
C23_NoKeyWaitsForAnother ==
    \A k \in KeySet :
        order_of[k] = "due"
        => ~(timeout_task.pc = "await_cancel" /\ LoopKeys[timeout_task.i] # k)

\* ---------------------------------------------------- Part VIII: properties

\* C24: every task that has ended with an exception, once the event loop has
\* run its done callbacks, has had the exception logged and shutdown requested.
C24_RaisedTaskLoggedAndShutdown ==
    \A name \in TaskNames :
        (bg[name] = "raised" /\ name \notin done_callbacks)
        => (name \in error_logged /\ shutdown_event)

\* ----------------------------------------------------------- partial fills

\* the timeout counter that belongs to an execution mode
TimeoutCountOf(s, mode) ==
    IF mode = "AGGRESSIVE_LIMIT" THEN s.aggr_timeout_count ELSE s.maker_timeout_count

\* the key's current order has traded in part on the exchange
CurrentOrderPartiallyFilled ==
    ks.current_order_id # NoId /\ kex[ks.current_order_id] = "partial"

\* C31: a PARTIALLY_FILLED update with a positive filled quantity for the key's
\* current order leaves the key's state as it is (a WAITING key stays WAITING)
\* and sets the timeout counter of the order's mode to 0; a later TTL timeout of
\* that order increases neither timeout counter.
C31_PartialFillResetsTimeoutCount ==
    [][ /\ (klog'.op = "update" /\ klog'.result = "PARTIALLY_FILLED")
            => /\ ks'.state = ks.state
               /\ ks.state = "WAITING" => ks'.state = "WAITING"
               /\ TimeoutCountOf(ks', klog'.order_mode) = 0
        /\ (klog'.op = "timeout" /\ CurrentOrderPartiallyFilled)
            => /\ ks'.maker_timeout_count <= ks.maker_timeout_count
               /\ ks'.aggr_timeout_count <= ks.aggr_timeout_count ]_vars

\* a partially filled order has timed out and the counter of its mode is 0
C31_Witness ==
    /\ klog.op = "timeout"
    /\ klog.had_fill
    /\ klog.count = 0
    /\ ks.current_order_id # NoId
    /\ kex[ks.current_order_id] = "partial"

\* the order the key holds was placed in AGGRESSIVE_LIMIT mode and has traded in
\* part on the exchange
AggressiveOrderPartiallyFilled ==
    /\ st.current_order_id # NoId
    /\ OrderMode(st) = "AGGRESSIVE_LIMIT"
    /\ exStatus[st.current_order_id] \in {"partial", "filled", "canceled", "expired"}
    /\ \/ st.current_order_filled_qty > 0
       \/ ws # <<>> /\ Head(ws).order_id = st.current_order_id /\ Head(ws).filled_qty > 0

\* the step completes the order the key holds: its final update is handled, or
\* its TTL timeout is detected
CompletesCurrentOrder ==
    \/ /\ ws # <<>>
       /\ ws' = Tail(ws)
       /\ Head(ws).order_id = st.current_order_id
       /\ Head(ws).status \in {"FILLED", "CANCELED", "EXPIRED"}
    \/ /\ st.state = "WAITING"
       /\ st'.state = "CANCELING"

\* C32: when an order that was placed in AGGRESSIVE_LIMIT mode and has been
\* partially filled completes (final fill, cancel, expiry or TTL timeout), the
\* key's mode is MAKER_ONLY.
C32_PartialFillDeescalatesAggressive ==
    [][ (AggressiveOrderPartiallyFilled /\ CompletesCurrentOrder)
            => st'.mode = "MAKER_ONLY" ]_vars

\* ------------------------------------------------------------------ the TTL

\* the TTL the key's order is due: the panic override while risk_active, the
\* configured TTL otherwise
DueTtl(s) == IF s.risk_active THEN panic_ttl_ms ELSE order_ttl_ms

\* check_timeout called now for the key finds its order timed out
KeyTimesOutNow == TimedOut(CheckTimeoutFlush(ks, know), know)

\* C33: check_timeout measures a WAITING order against ttl_ms_override when
\* risk_active is true and against order_ttl_ms when it is false: the order is
\* found timed out exactly when its age has reached that TTL, and the override
\* is set exactly while risk_active is true.
C33_TtlFollowsRiskActive ==
    /\ ks.risk_active <=> ks.ttl_ms_override # {}
    /\ ks.risk_active => ks.ttl_ms_override = {panic_ttl_ms}
    /\ ks.state = "WAITING" =>
            (KeyTimesOutNow <=> know - ks.current_order_placed_ms >= DueTtl(ks))

\* an order of a risk_active key has timed out at the override TTL, before the
\* configured TTL
C33_Witness ==
    /\ klog.op = "timeout"
    /\ ks.risk_active
    /\ ks.state = "CANCELING"
    /\ know - ks.current_order_placed_ms = panic_ttl_ms
    /\ panic_ttl_ms < order_ttl_ms

\* C34: check_timeout finds a WAITING order timed out whenever its age is at
\* least the TTL in force, an age equal to the TTL included, and every timeout
\* it detects is of an order of at least that age.
C34_TimeoutComparisonInclusive ==
    [][ /\ (ks.state = "WAITING" /\ know - ks.current_order_placed_ms >= TtlMs(ks))
            => KeyTimesOutNow
        /\ klog'.op = "timeout"
            => (ks.state = "WAITING" /\ know - ks.current_order_placed_ms >= TtlMs(ks)) ]_vars

\* a timeout has been detected at an age exactly equal to the TTL
C34_Witness ==
    /\ klog.op = "timeout"
    /\ ks.state = "CANCELING"
    /\ know - ks.current_order_placed_ms = TtlMs(ks)

\* --------------------------------------------------------- Part IX: properties

\* C35: an intent returned by on_signal or on_panic_close has a quantity of at
\* least min_qty and at most |position_amt|; when the position is smaller than
\* min_qty, so that no such quantity exists, no intent is returned.
C35_IntentQtyWithinPosition ==
    quote.op \in {"on_signal", "on_panic_close"} =>
        /\ quote.returned => /\ quote.min_qty <= quote.qty
                             /\ quote.qty <= Abs(quote.position_amt)
        /\ Abs(quote.position_amt) < quote.min_qty => ~quote.returned

\* on_signal has returned an intent for the whole position, the lot it would
\* otherwise send being larger than the position
C35_Witness ==
    /\ quote.op = "on_signal"
    /\ quote.returned
    /\ quote.qty = Abs(quote.position_amt)
    /\ quote.min_qty * quote.args[1].base_lot_mult > Abs(quote.position_amt)

\* C36: for a book with best_bid <= best_ask and a positive tick size, the
\* maker price is at least best_bid + safety * tick for a LONG exit (SELL) and
\* at most best_ask - safety * tick for a SHORT exit (BUY).
C36_MakerPriceKeepsSafetyTicks ==
    quote.op = "build_maker_price" =>
        IF quote.position_side = "LONG"
        THEN quote.price >= quote.best_bid + quote.safety_ticks * quote.tick_size
        ELSE quote.price <= quote.best_ask - quote.safety_ticks * quote.tick_size

\* C36 as amended: the SELL price is at least round_to_tick(best_bid) +
\* safety * tick, which is best_bid + safety * tick for a bid on the tick grid;
\* the BUY price is at most best_ask - safety * tick whenever
\* round_to_tick(best_ask) - safety * tick is positive.
C36_MakerPriceKeepsSafetyTicksOnGrid ==
    quote.op = "build_maker_price" =>
        IF quote.position_side = "LONG"
        THEN /\ quote.price >= RoundToStep(quote.best_bid, quote.tick_size)
                               + quote.safety_ticks * quote.tick_size
             /\ quote.best_bid % quote.tick_size = 0
                    => quote.price >= quote.best_bid + quote.safety_ticks * quote.tick_size
        ELSE RoundToStep(quote.best_ask, quote.tick_size)
                    - quote.safety_ticks * quote.tick_size > 0
                => quote.price <= quote.best_ask - quote.safety_ticks * quote.tick_size

\* a SELL price has been moved up to best_bid + safety * tick, the configured
\* mode having priced it at or below the bid
C36_Witness ==
    /\ quote.op = "build_maker_price"
    /\ quote.position_side = "LONG"
    /\ quote.best_bid % quote.tick_size = 0
    /\ quote.args[1].maker_price_mode = "custom_ticks"
    /\ quote.best_ask - quote.args[1].maker_n_ticks * quote.tick_size <= quote.best_bid
    /\ quote.price = quote.best_bid + quote.safety_ticks * quote.tick_size

\* ---------------------------------------------------------- Part X: properties

\* the non-risk calls of a kind that were accepted at a time in [t, t + window_ms)
AcceptedInWindow(kind, t) ==
    {i \in DOMAIN acquired.accepted[kind] :
        t <= acquired.accepted[kind][i] /\ acquired.accepted[kind][i] < t + window_ms}

\* C37: for the placement limiter and the cancellation limiter, the non-risk
\* calls accepted in any window of one second number at most the configured
\* limit (max_orders_per_sec, max_cancels_per_sec).
C37_AcceptedPerWindowWithinLimit ==
    \A t \in 0..MaxLimiterTime :
        /\ Cardinality(AcceptedInWindow("order", t)) <= max_orders_per_sec
        /\ Cardinality(AcceptedInWindow("cancel", t)) <= max_cancels_per_sec

\* the placement limiter is full in the present window, has accepted calls in
\* an earlier window too, and a risk placement has gone by it
C37_Witness ==
    /\ Len(limiter.queue["order"]) = max_orders_per_sec
    /\ Len(acquired.accepted["order"]) > max_orders_per_sec
    /\ limiter.queue["order"][1] > limiter.now_ms - window_ms
    /\ acquired.bypassed["order"] > 0
    /\ Len(limiter.queue["cancel"]) = max_cancels_per_sec

\* ------------------------------------------- properties of Part V, continued

\* the step handles an order update (KeyOrderUpdate changes the order's status
\* on the exchange)
UpdatedOrders == {id \in KeyOrderIds : kex'[id] # kex[id]}

\* the step handles an update of an order that is not the one the key is
\* placing (an order gets its id when its placement returns) or waiting on
HandlesUpdateOfAnotherOrder ==
    /\ klog'.op \in {"update", "stale_update"}
    /\ \/ ks.state = "PLACING"
       \/ ks.state = "WAITING" /\ ks.current_order_id \notin UpdatedOrders

\* C38: an update of an order that is not the one the key is placing or waiting
\* on changes neither the key's state, nor its current-order fields, nor its
\* is_risk flag.
C38_OtherOrdersUpdateChangesNothing ==
    [][ HandlesUpdateOfAnotherOrder
            => /\ ks'.state = ks.state
               /\ ks'.current_order_id = ks.current_order_id
               /\ ks'.current_order_placed_ms = ks.current_order_placed_ms
               /\ ks'.current_order_mode = ks.current_order_mode
               /\ ks'.current_order_filled_qty = ks.current_order_filled_qty
               /\ ks'.current_order_is_risk = ks.current_order_is_risk ]_vars

\* the loops alone take the key on from its state: a placement or a cancel is
\* awaited and will return, or the state is one that the clock ends (WAITING by
\* check_timeout at the TTL, COOLDOWN by check_cooldown).  In every other state
\* outside IDLE, on_signal and on_panic_close return None, check_cooldown and
\* check_timeout return at their first test, and only an order update of the
\* current order can change the state.
LoopsMoveKeyOn ==
    \/ ks.state = "PLACING" /\ kpc.side = "place_sent"
    \/ ks.state = "WAITING"
    \/ ks.state = "CANCELING" /\ kpc.to = "await_cancel"
    \/ ks.state = "COOLDOWN"

\* C39: a key that has left IDLE returns to IDLE while the loops keep running,
\* whatever order updates arrive or fail to arrive: the key is never in a state
\* outside IDLE that the loops cannot take it on from.
C39_KeyReturnsToIdle == ks.state # "IDLE" => LoopsMoveKeyOn

\* ------------------------------------------ properties of Part II, continued

\* C40: a sweep releases an external-takeover latch only when it has retrieved
\* the open orders and found no external stop on the side; a sync whose
\* open-order fetch failed releases no latch.
C40_FailedFetchKeepsLatch ==
    (syncLog.swept /\ syncLog.was_active /\ ~syncLog.active)
    => (~syncLog.fetch_failed /\ ~syncLog.ext)

====
